---- MODULE Spec2Model ----
(***************************************************************************)
(* flexipop: the overlay controller (CreateOverlay), the popper controller *)
(* it owns (CreatePopper), the dimension reader (getDimensions) and the    *)
(* placement resolver (determinePosition), as one state machine over the   *)
(* DOM state they write: attributes, style properties and listeners.       *)
(*                                                                         *)
(* Elements are "t1" and "t2" (two candidate triggers) and "content" (the  *)
(* popper element); they are disjoint boxes, none nested in another, so    *)
(* contains(target) holds exactly for the element itself.                  *)
(***************************************************************************)
EXTENDS Integers, Sequences, FiniteSets, TLC

VARIABLES
    opts,               \* CreateOverlay's configuration fields
    triggerElement,     \* CreateOverlay.triggerElement
    popper,             \* the owned CreatePopper instance's fields
    dataState,          \* content element's data-state attribute
    ariaExpanded,       \* aria-expanded attribute of each trigger candidate
    listeners,          \* registered listeners: <<target, type, handler>>
    style,              \* --fx-popper-placement-x / -y of the content element
    hover,              \* the element under the cursor (:hover)
    scrollY,            \* document scroll offset
    windowWidth,        \* window.innerWidth
    cssTransition,      \* content has a CSS transition running on state change
    pendingTransitions, \* afterTransition callbacks waiting for transitionend
    timers,             \* pending setTimeout(.., 150) callbacks, oldest first
    log,                \* steps and callbacks of the latest handler, in order
    lastOp,             \* the latest event or API call and its inputs
    removeCalls,        \* window.removeEventListener calls of the latest handler
    probe,              \* a direct call of determinePosition: context and result
    measure,            \* the direct calls of getDimensions: the latest one's
                        \* arguments and outcome, and the getBoundingClientRect
                        \* calls made on each element so far
    clickRun            \* parity of the trigger clicks in a row since the
                        \* overlay was last seen closed

vars == <<opts, triggerElement, popper, dataState, ariaExpanded, listeners,
          style, hover, scrollY, windowWidth, cssTransition,
          pendingTransitions, timers, log, lastOp, removeCalls, probe,
          measure, clickRun>>

----------------------------------------------------------------------------
(* Bounds of the model *)

MaxPending == 1
MaxTimers == 2
\* direct getDimensions calls in one behaviour
MaxDimensionCalls == 3

----------------------------------------------------------------------------
(* Values *)

Triggers == {"t1", "t2"}
Targets == {"t1", "t2", "content", "outside"}
Keys == {"Escape", "Enter"}

Sides == {"top", "bottom", "left", "right"}
Aligns == {"start", "middle", "end"}
Placements ==
    {"top", "top-start", "top-middle", "top-end",
     "bottom", "bottom-start", "bottom-middle", "bottom-end",
     "left", "left-start", "left-middle", "left-end",
     "right", "right-start", "right-middle", "right-end"}

\* an omitted placement argument, and an absent attribute
UndefinedPlacement == "undefined"
NoAttribute == ""
\* a selector that matches nothing, or a value that is not an element
NoElement == ""
\* an omitted offsetDistance argument
UndefinedOffset == -1

\* placements and offsets the overlay's callers pass in this model
CallPlacements == {"right-start"}
CallOffsets == {10}

\* style property values: the empty string, or "<n>px"
EmptyValue == [set |-> FALSE, px |-> 0]
Px(n) == [set |-> TRUE, px |-> n]

\* offsetDistance values that are not numbers: a non-empty string, the
\* empty string, null and false
WrongString == -2
EmptyString == -3
NullValue == -4
FalseValue == -5
NonNumbers == {WrongString, EmptyString, NullValue, FalseValue}

\* typeof v === "number"
IsNumber(v) == v >= 0
\* the values JavaScript treats as false in a condition
Falsy(v) == v \in {UndefinedOffset, 0, EmptyString, NullValue, FalseValue}

\* the result of arithmetic on a value that is not a number
NaN == -999

\* a || b for an optional number: undefined, 0, "", null and false are falsy
OrOffset(a, b) == IF Falsy(a) THEN b ELSE a
\* a || b for an optional placement token
OrPlacement(a, b) == IF a = UndefinedPlacement THEN b ELSE a

WindowHeight == 800
WindowWidths == {1000, 300}
ScrollOffsets == {0, 60}

\* layout boxes in document coordinates (even extents: halves are exact)
BaseRect(el) ==
    CASE el = "t1" -> [left |-> 100, top |-> 200, width |-> 100, height |-> 40]
      [] el = "t2" -> [left |-> 400, top |-> 300, width |-> 80, height |-> 40]
      [] OTHER     -> [left |-> 0, top |-> 0, width |-> 200, height |-> 100]

\* element.getBoundingClientRect(): viewport-relative
BoundingClientRect(el, scroll) ==
    LET b == BaseRect(el)
    IN [left |-> b.left, top |-> b.top - scroll, width |-> b.width,
        height |-> b.height, right |-> b.left + b.width]

----------------------------------------------------------------------------
(* Dimension reader and placement resolver *)

GetDimensions(reference, popperEl, scroll) ==
    LET popperRect == BoundingClientRect(popperEl, scroll)
        refRect == BoundingClientRect(reference, scroll)
    IN [popperHeight |-> popperRect.height,
        popperWidth |-> popperRect.width,
        refHeight |-> refRect.height,
        refWidth |-> refRect.width,
        refLeft |-> refRect.left,
        refTop |-> refRect.top,
        refRight |-> refRect.right]

Max(a, b) == IF a >= b THEN a ELSE b
Min(a, b) == IF a <= b THEN a ELSE b

SideOf(placement) ==
    CASE placement \in {"top", "top-start", "top-middle", "top-end"} -> "top"
      [] placement \in {"bottom", "bottom-start", "bottom-middle", "bottom-end"} -> "bottom"
      [] placement \in {"left", "left-start", "left-middle", "left-end"} -> "left"
      [] OTHER -> "right"

\* a decomposition in which a bare side aligns at the start
AlignOf_BareIsStart(placement) ==
    CASE placement \in {"top-middle", "bottom-middle", "left-middle", "right-middle"} -> "middle"
      [] placement \in {"top-end", "bottom-end", "left-end", "right-end"} -> "end"
      [] OTHER -> "start"

AlignOf(placement) ==
    CASE placement \in {"top-start", "bottom-start", "left-start", "right-start"} -> "start"
      [] placement \in {"top-end", "bottom-end", "left-end", "right-end"} -> "end"
      [] OTHER -> "middle"

Half(n) == n \div 2

\* a clip in which the upper bound wins
Clip_UpperBoundWins(v, viewportExtent, popperExtent) ==
    Min(Max(0, v), viewportExtent - popperExtent)

\* clip a coordinate into [0, viewportExtent - popperExtent]; the lower
\* bound wins when the popper is larger than the viewport
Clip(v, viewportExtent, popperExtent) ==
    Max(0, Min(v, viewportExtent - popperExtent))

\* a resolver that applies the offset towards the reference
DeterminePosition_OffsetTowards(ctx) ==
    LET side == SideOf(ctx.placement)
        align == AlignOf(ctx.placement)
        primary ==
            CASE side = "top" -> ctx.refTop - ctx.popperHeight + ctx.offsetDistance
              [] side = "bottom" -> ctx.refTop + ctx.refHeight - ctx.offsetDistance
              [] side = "left" -> ctx.refLeft - ctx.popperWidth + ctx.offsetDistance
              [] OTHER -> ctx.refLeft + ctx.refWidth - ctx.offsetDistance
        cross ==
            IF side \in {"top", "bottom"}
            THEN CASE align = "start" -> ctx.refLeft
                   [] align = "middle" ->
                        ctx.refLeft + Half(ctx.refWidth) - Half(ctx.popperWidth)
                   [] OTHER -> ctx.refLeft + ctx.refWidth - ctx.popperWidth
            ELSE CASE align = "start" -> ctx.refTop
                   [] align = "middle" ->
                        ctx.refTop + Half(ctx.refHeight) - Half(ctx.popperHeight)
                   [] OTHER -> ctx.refTop + ctx.refHeight - ctx.popperHeight
        ux == IF side \in {"top", "bottom"} THEN cross ELSE primary
        uy == IF side \in {"top", "bottom"} THEN primary ELSE cross
    IN [x |-> Clip(ux, ctx.windowWidth, ctx.popperWidth),
        y |-> Clip(uy, ctx.windowHeight, ctx.popperHeight)]

DeterminePosition(ctx) ==
    LET side == SideOf(ctx.placement)
        align == AlignOf(ctx.placement)
        primary ==
            CASE side = "top" -> ctx.refTop - ctx.popperHeight - ctx.offsetDistance
              [] side = "bottom" -> ctx.refTop + ctx.refHeight + ctx.offsetDistance
              [] side = "left" -> ctx.refLeft - ctx.popperWidth - ctx.offsetDistance
              [] OTHER -> ctx.refLeft + ctx.refWidth + ctx.offsetDistance
        cross ==
            IF side \in {"top", "bottom"}
            THEN CASE align = "start" -> ctx.refLeft
                   [] align = "middle" ->
                        ctx.refLeft + Half(ctx.refWidth) - Half(ctx.popperWidth)
                   [] OTHER -> ctx.refLeft + ctx.refWidth - ctx.popperWidth
            ELSE CASE align = "start" -> ctx.refTop
                   [] align = "middle" ->
                        ctx.refTop + Half(ctx.refHeight) - Half(ctx.popperHeight)
                   [] OTHER -> ctx.refTop + ctx.refHeight - ctx.popperHeight
        ux == IF side \in {"top", "bottom"} THEN cross ELSE primary
        uy == IF side \in {"top", "bottom"} THEN primary ELSE cross
    IN [x |-> Clip(ux, ctx.windowWidth, ctx.popperWidth),
        y |-> Clip(uy, ctx.windowHeight, ctx.popperHeight)]

\* no direct call of the resolver has been made
NoProbe ==
    [called |-> FALSE,
     ctx |-> [placement |-> UndefinedPlacement, refWidth |-> 0, refTop |-> 0,
              refLeft |-> 0, popperWidth |-> 0, refHeight |-> 0,
              popperHeight |-> 0, windowHeight |-> 0, windowWidth |-> 0,
              offsetDistance |-> 0],
     x |-> 0, y |-> 0]

----------------------------------------------------------------------------
(* The world a handler runs in: a record of the variables' values.  Every  *)
(* operation below maps a world to the world it leaves behind.             *)

World ==
    [opts |-> opts, triggerElement |-> triggerElement, popper |-> popper,
     dataState |-> dataState, ariaExpanded |-> ariaExpanded,
     listeners |-> listeners, style |-> style, hover |-> hover,
     scrollY |-> scrollY, windowWidth |-> windowWidth,
     cssTransition |-> cssTransition,
     pendingTransitions |-> pendingTransitions, timers |-> timers,
     log |-> <<>>, removeCalls |-> 0]

\* sequencing: the value of v, computed once, handed to the rest F
Let(v, F(_)) == CHOOSE r \in {F(x) : x \in {v}} : TRUE

\* the elements getDimensions is called with
Elements == {"t1", "t2", "content"}

\* the result of a getDimensions call that threw
NoDimensions ==
    [popperHeight |-> 0, popperWidth |-> 0, refHeight |-> 0, refWidth |-> 0,
     refLeft |-> 0, refTop |-> 0, refRight |-> 0]

\* no direct call of getDimensions has been made
NoMeasure ==
    [n |-> 0, reference |-> NoElement, popperEl |-> NoElement, thrown |-> "",
     dims |-> NoDimensions, rectCalls |-> [e \in Elements |-> 0]]

\* getRect that measures the element whether or not it is in the cache
GetRect_NoCache(st, element, scroll) ==
    [cache |-> st.cache \cup {<<element, BoundingClientRect(element, scroll)>>},
     rectCalls |-> [st.rectCalls EXCEPT ![element] = @ + 1]]

\* getRect(element): st is the call's WeakMap (a set of <<element, rect>>)
\* and the getBoundingClientRect calls made on each element
GetRect(st, element, scroll) ==
    IF \E entry \in st.cache : entry[1] = element
    THEN st
    ELSE [cache |-> st.cache \cup {<<element, BoundingClientRect(element, scroll)>>},
          rectCalls |-> [st.rectCalls EXCEPT ![element] = @ + 1]]

\* cache.get(element)
CacheGet(st, element) == (CHOOSE entry \in st.cache : entry[1] = element)[2]

\* getDimensions that measures the elements it is given before it checks them
GetDimensionsOf_MeasuresFirst(m, reference, popperEl, scroll) ==
    [n |-> m.n + 1, reference |-> reference, popperEl |-> popperEl,
     thrown |-> IF reference = NoElement \/ popperEl = NoElement
                THEN "Reference or popper element is null or undefined" ELSE "",
     dims |-> IF reference = NoElement \/ popperEl = NoElement
              THEN NoDimensions ELSE GetDimensions(reference, popperEl, scroll),
     rectCalls |-> [e \in Elements |->
                      m.rectCalls[e] + (IF e \in {reference, popperEl} THEN 1 ELSE 0)]]

\* getDimensions({reference, popper}) called directly: m is the record of
\* the calls so far; the cache is created anew by every call
GetDimensionsOf(m, reference, popperEl, scroll) ==
    IF reference = NoElement \/ popperEl = NoElement
    THEN [m EXCEPT !.n = @ + 1, !.reference = reference, !.popperEl = popperEl,
                   !.thrown = "Reference or popper element is null or undefined",
                   !.dims = NoDimensions]
    ELSE Let(GetRect([cache |-> {}, rectCalls |-> m.rectCalls], popperEl, scroll),
             LAMBDA s1 :
         Let(GetRect(s1, reference, scroll), LAMBDA s2 :
         Let(CacheGet(s2, popperEl), LAMBDA popperRect :
         Let(CacheGet(s2, reference), LAMBDA refRect :
             [n |-> m.n + 1, reference |-> reference, popperEl |-> popperEl,
              thrown |-> "",
              dims |-> [popperHeight |-> popperRect.height,
                        popperWidth |-> popperRect.width,
                        refHeight |-> refRect.height,
                        refWidth |-> refRect.width,
                        refLeft |-> refRect.left,
                        refTop |-> refRect.top,
                        refRight |-> refRect.right],
              rectCalls |-> s2.rectCalls]))))

\* record a callback invocation or a step: its argument or return value,
\* the coordinates it is handed (0 when it takes none), and what it
\* observes at that moment: the data-state and whether the popper's window
\* listeners are registered
EmitCall(w, e, a, px, py) ==
    Let(w, LAMBDA x :
        [x EXCEPT !.log = Append(@, [ev |-> e, state |-> x.dataState, arg |-> a,
                                     x |-> px, y |-> py,
                                     registered |-> x.popper.isEventRegistrer])])

EmitArg(w, e, a) == EmitCall(w, e, a, 0, 0)

Emit(w, e) == EmitArg(w, e, "")

\* throw new Error(message): recorded as the last step of the handler
Throw(w, message) == EmitArg(w, "throw", message)

\* the handler has thrown: nothing after the throw runs
Thrown(w) == w.log # <<>> /\ w.log[Len(w.log)].ev = "throw"

AddEventListener(w, target, type, handler) ==
    [w EXCEPT !.listeners = @ \cup {<<target, type, handler>>}]

RemoveEventListener(w, target, type, handler) ==
    [w EXCEPT !.listeners = @ \ {<<target, type, handler>>},
              !.removeCalls = IF target = "window" THEN @ + 1 ELSE @]

----------------------------------------------------------------------------
(* CreatePopper *)

\* DEFAULT_PLACEMENT and DEFAULT_OFFSETDISTANCE
DefaultPopperPlacement == "bottom"
DefaultPopperOffsetDistance == 0

NewPopper(reference, popperEl, options) ==
    [reference |-> reference,
     popperEl |-> popperEl,
     offsetDistance |-> options.offsetDistance,
     placement |-> options.placement,
     disableOnResize |-> options.disableOnResize,
     disableOnScroll |-> options.disableOnScroll,
     onUpdate |-> options.onUpdate,
     isEventRegistrer |-> FALSE]

\* no controller has been constructed
NoPopper ==
    NewPopper(NoElement, NoElement,
              [offsetDistance |-> UndefinedOffset, placement |-> UndefinedPlacement,
               disableOnResize |-> FALSE, disableOnScroll |-> FALSE,
               onUpdate |-> FALSE])

\* new CreatePopper(reference, popper, options): the checks, then the fields
CreatePopperConstructor(w, reference, popperEl, options) ==
    IF reference = NoElement
    THEN Throw(w, "Invalid HTMLElement for Reference Element")
    ELSE IF popperEl = NoElement
    THEN Throw(w, "Invalid HTMLElement for Popper")
    ELSE IF ~Falsy(options.offsetDistance) /\ ~IsNumber(options.offsetDistance)
    THEN Throw(w, "OffsetDistance must be a number")
    ELSE [w EXCEPT !.popper =
            NewPopper(reference, popperEl,
                [options EXCEPT
                    !.offsetDistance = IF @ = UndefinedOffset
                                       THEN DefaultPopperOffsetDistance ELSE @,
                    !.placement = OrPlacement(@, DefaultPopperPlacement)])]

\* validateElements of a constructed controller: reference and popper are
\* the elements the constructor accepted, the stored offset may be anything
\* the constructor let through
ValidateElements(w) ==
    Let(w, LAMBDA w0 :
        IF ~IsNumber(w0.popper.offsetDistance)
        THEN Throw(w0, "OffsetDistance must be a number")
        ELSE w0)

SetPopperStyleProperty(w, x, y) ==
    [w EXCEPT !.style = [x |-> Px(x), y |-> Px(y)]]

SetInitialStyles(w) ==
    [w EXCEPT !.style = [x |-> EmptyValue, y |-> EmptyValue]]

\* the coordinate initPlacement resolves for the given reference element;
\* an offset that is not a number makes the arithmetic of the primary axis
\* yield NaN and leaves the cross axis, which does not use it, as it is
ResolvedPosition(w, reference, placement, offsetDistance) ==
    Let(GetDimensions(reference, w.popper.popperEl, w.scrollY), LAMBDA d :
    Let(DeterminePosition(
          [placement |-> placement,
           refWidth |-> d.refWidth, refTop |-> d.refTop, refLeft |-> d.refLeft,
           popperWidth |-> d.popperWidth, refHeight |-> d.refHeight,
           popperHeight |-> d.popperHeight,
           windowHeight |-> WindowHeight, windowWidth |-> w.windowWidth,
           offsetDistance |-> IF IsNumber(offsetDistance) THEN offsetDistance ELSE 0]),
        LAMBDA pos :
        IF IsNumber(offsetDistance) THEN pos
        ELSE IF SideOf(placement) \in {"top", "bottom"}
        THEN [x |-> pos.x, y |-> NaN]
        ELSE [x |-> NaN, y |-> pos.y]))

\* initPlacement that never reports to onUpdate
InitPlacement_SkipsOnUpdate(w, placement, offsetDistance) ==
    Let(SetInitialStyles(w), LAMBDA w1 :
    Let(ResolvedPosition(w1, w1.popper.reference,
                         OrPlacement(placement, w1.popper.placement),
                         OrOffset(offsetDistance, w1.popper.offsetDistance)),
        LAMBDA pos :
        SetPopperStyleProperty(w1, pos.x, pos.y)))

InitPlacement(w, placement, offsetDistance) ==
    Let(ValidateElements(w), LAMBDA w0 :
    IF Thrown(w0) THEN w0 ELSE
    Let(SetInitialStyles(w0), LAMBDA w1 :
    Let(ResolvedPosition(w1, w1.popper.reference,
                         OrPlacement(placement, w1.popper.placement),
                         OrOffset(offsetDistance, w1.popper.offsetDistance)),
        LAMBDA pos :
    Let(SetPopperStyleProperty(w1, pos.x, pos.y), LAMBDA w2 :
        IF w2.popper.onUpdate
        THEN EmitCall(w2, "onUpdate",
                      OrPlacement(placement, w2.popper.placement), pos.x, pos.y)
        ELSE w2))))

\* attachWindowEvent that forgets to mark the listeners registered
AttachWindowEvent_SkipsFlag(w) ==
    Let(w, LAMBDA w0 :
    Let(IF ~w0.popper.disableOnResize
        THEN AddEventListener(w0, "window", "resize", "initPositionate")
        ELSE w0, LAMBDA w1 :
        IF ~w1.popper.disableOnScroll
        THEN AddEventListener(w1, "window", "scroll", "initPositionate")
        ELSE w1))

AttachWindowEvent(w) ==
    Let(w, LAMBDA w0 :
    Let(IF ~w0.popper.disableOnResize
        THEN AddEventListener(w0, "window", "resize", "initPositionate")
        ELSE w0, LAMBDA w1 :
    Let(IF ~w1.popper.disableOnScroll
        THEN AddEventListener(w1, "window", "scroll", "initPositionate")
        ELSE w1, LAMBDA w2 :
        [w2 EXCEPT !.popper.isEventRegistrer = TRUE])))

InitPositionate(w) == InitPlacement(w, UndefinedPlacement, UndefinedOffset)

\* resetPosition that also tears the window listeners down
ResetPosition_TearsDown(w) ==
    [SetInitialStyles(w) EXCEPT !.listeners = {l \in @ : l[1] # "window"},
                                !.popper.isEventRegistrer = FALSE]

ResetPosition(w) == SetInitialStyles(w)

\* updatePosition that detaches the listeners when they are registered
UpdatePosition_TogglesListeners(w) ==
    Let(InitPositionate(Emit(w, "updatePosition")), LAMBDA w1 :
        IF w1.popper.isEventRegistrer
        THEN [w1 EXCEPT !.listeners = {l \in @ : l[1] # "window"},
                        !.popper.isEventRegistrer = FALSE]
        ELSE AttachWindowEvent(w1))

UpdatePosition(w) ==
    Let(InitPositionate(Emit(w, "updatePosition")), LAMBDA w1 :
        IF Thrown(w1) THEN w1 ELSE AttachWindowEvent(w1))

\* cleanEvents that removes both listeners whatever the flags say
CleanEvents_IgnoresFlags(w) ==
    RemoveEventListener(
        RemoveEventListener(w, "window", "resize", "initPositionate"),
        "window", "scroll", "initPositionate")

CleanEvents(w) ==
    Let(w, LAMBDA w0 :
    Let(IF ~w0.popper.disableOnResize
        THEN RemoveEventListener(w0, "window", "resize", "initPositionate")
        ELSE w0, LAMBDA w1 :
        IF ~w1.popper.disableOnScroll
        THEN RemoveEventListener(w1, "window", "scroll", "initPositionate")
        ELSE w1))

\* setOptions that detaches and never re-attaches
SetOptions_DetachOnly(w, placement, offsetDistance) ==
    Let(InitPlacement(Emit(w, "setOptions"), placement, offsetDistance), LAMBDA w1 :
        IF w1.popper.isEventRegistrer THEN CleanEvents(w1) ELSE w1)

SetOptions(w, placement, offsetDistance) ==
    Let(InitPlacement(Emit(w, "setOptions"), placement, offsetDistance), LAMBDA w1 :
    IF Thrown(w1) THEN w1 ELSE
    Let(IF w1.popper.isEventRegistrer THEN CleanEvents(w1) ELSE w1, LAMBDA w2 :
        AttachWindowEvent(w2)))

\* cleanupEvents that clears the styles but leaves the listeners
CleanupEvents_KeepsListeners(w) ==
    SetInitialStyles(Emit(w, "cleanupEvents"))

\* cleanupEvents that detaches the listeners and leaves the flag set
CleanupEvents_KeepsFlag(w) ==
    Let(SetInitialStyles(Emit(w, "cleanupEvents")), LAMBDA w1 :
        IF w1.popper.isEventRegistrer THEN CleanEvents(w1) ELSE w1)

CleanupEvents(w) ==
    Let(SetInitialStyles(Emit(w, "cleanupEvents")), LAMBDA w1 :
        IF w1.popper.isEventRegistrer
        THEN [CleanEvents(w1) EXCEPT !.popper.isEventRegistrer = FALSE]
        ELSE w1)

----------------------------------------------------------------------------
(* CreateOverlay *)

UpdateOverlayState(w, state) ==
    Let(w, LAMBDA w0 :
        EmitArg([w0 EXCEPT !.dataState = state,
                           !.ariaExpanded[w0.triggerElement] =
                               IF state = "open" THEN "true" ELSE "false"],
                "updateOverlayState", state))

OnToggleState(w, isHidden) ==
    EmitArg(w, "onToggle", IF isHidden THEN "isHidden:true" ELSE "isHidden:false")

\* show() that flips the attributes before it calls beforeShow
Show_StateBeforeCallback(w) ==
    Let(UpdatePosition(w), LAMBDA w1 :
    Let(EmitArg(AddEventListener(w1, "document", "keydown", "handleKeyDown"),
                "addEventListener", "keydown"), LAMBDA w2 :
    Let(EmitArg(AddEventListener(w2, "document", "click", "handleDocumentClick"),
                "addEventListener", "click"), LAMBDA w3 :
    Let(UpdateOverlayState(w3, "open"), LAMBDA w4 :
    Let(EmitArg(w4, "beforeShow", ""), LAMBDA w5 :
    Let(OnToggleState(w5, FALSE), LAMBDA w6 :
        EmitArg(w6, "onShow", "")))))))

Show(w) ==
    Let(UpdatePosition(w), LAMBDA w1 :
    Let(EmitArg(AddEventListener(w1, "document", "keydown", "handleKeyDown"),
                "addEventListener", "keydown"), LAMBDA w2 :
    Let(EmitArg(AddEventListener(w2, "document", "click", "handleDocumentClick"),
                "addEventListener", "click"), LAMBDA w3 :
    Let(EmitArg(w3, "beforeShow", ""), LAMBDA w4 :
    Let(UpdateOverlayState(w4, "open"), LAMBDA w5 :
    Let(OnToggleState(w5, FALSE), LAMBDA w6 :
        EmitArg(w6, "onShow", "")))))))

\* the callback hide() hands to afterTransition
TransitionCallback(w) ==
    Let(OnToggleState(EmitArg(w, "transitionCallback", ""), TRUE), LAMBDA w1 :
    Let(CleanupEvents(w1), LAMBDA w2 :
        EmitArg(w2, "onHide", "")))

\* afterTransition: run the callback now when no transition is running on
\* the element, else once its transitionend arrives
AfterTransition(w) ==
    Let(w, LAMBDA w0 :
        IF w0.cssTransition
        THEN [w0 EXCEPT !.pendingTransitions = @ + 1]
        ELSE TransitionCallback(w0))

\* hide() up to the afterTransition call
HideSteps(w, ret) ==
    Let(EmitArg(w, "beforeHide", ret), LAMBDA w1 :
    Let(UpdateOverlayState(w1, "close"), LAMBDA w2 :
    Let(IF w2.opts.triggerStrategy = "click"
        THEN RemoveEventListener(w2, "document", "click", "handleDocumentClick")
        ELSE w2, LAMBDA w3 :
    Let(RemoveEventListener(w3, "document", "keydown", "handleKeyDown"), LAMBDA w4 :
        IF w4.opts.triggerStrategy = "hover"
        THEN RemoveEventListener(
               RemoveEventListener(w4, w4.triggerElement, "mouseleave",
                                   "hideOnMouseLeaseTrigger"),
               "content", "mouseleave", "hideOnMouseLeave")
        ELSE w4))))

\* hide() that gives up when beforeHide asks to cancel
Hide_HonoursCancel(w, ret) ==
    IF ret = "cancelAction"
    THEN EmitArg(w, "beforeHide", ret)
    ELSE AfterTransition(HideSteps(w, ret))

\* ret is what the beforeHide callback returns ("cancelAction" or "void")
Hide(w, ret) == AfterTransition(HideSteps(w, ret))

\* the document click handler with the inside-content branch guarded by
\* the outside flag
HandleDocumentClick_InsideUsesOutsideFlag(w, target, ret) ==
    Let(EmitArg(w, "handleDocumentClick", target), LAMBDA w1 :
    Let([inTrigger |-> (target = w1.triggerElement),
         inContent |-> (target = "content")], LAMBDA t :
        IF w1.dataState = "open"
        THEN IF ~t.inTrigger /\ ~w1.opts.preventFromCloseInside
                 /\ ~w1.opts.preventFromCloseOutside
             THEN Hide(w1, ret)
             ELSE IF ~t.inTrigger /\ ~t.inContent /\ ~w1.opts.preventFromCloseOutside
             THEN Hide(w1, ret)
             ELSE IF ~t.inTrigger /\ t.inContent /\ ~w1.opts.preventFromCloseOutside
             THEN Hide(w1, ret)
             ELSE w1
        ELSE w1))

\* the document click handler without the test for a click in the trigger
HandleDocumentClick_IgnoresTrigger(w, target, ret) ==
    Let(EmitArg(w, "handleDocumentClick", target), LAMBDA w1 :
    Let([inContent |-> (target = "content")], LAMBDA t :
        IF w1.dataState = "open"
        THEN IF ~w1.opts.preventFromCloseInside /\ ~w1.opts.preventFromCloseOutside
             THEN Hide(w1, ret)
             ELSE IF ~t.inContent /\ ~w1.opts.preventFromCloseOutside
             THEN Hide(w1, ret)
             ELSE IF t.inContent /\ ~w1.opts.preventFromCloseInside
             THEN Hide(w1, ret)
             ELSE w1
        ELSE w1))

HandleDocumentClick(w, target, ret) ==
    Let(EmitArg(w, "handleDocumentClick", target), LAMBDA w1 :
    Let([inTrigger |-> (target = w1.triggerElement),
         inContent |-> (target = "content")], LAMBDA t :
        IF w1.dataState = "open"
        THEN IF ~t.inTrigger /\ ~w1.opts.preventFromCloseInside
                 /\ ~w1.opts.preventFromCloseOutside
             THEN Hide(w1, ret)
             ELSE IF ~t.inTrigger /\ ~t.inContent /\ ~w1.opts.preventFromCloseOutside
             THEN Hide(w1, ret)
             ELSE IF ~t.inTrigger /\ ~t.inContent /\ ~w1.opts.preventFromCloseOutside
             THEN Hide(w1, ret)
             ELSE IF ~t.inTrigger /\ t.inContent /\ ~w1.opts.preventFromCloseInside
             THEN Hide(w1, ret)
             ELSE w1
        ELSE w1))

\* the keydown handler without the preventFromCloseOutside test
HandleKeyDown_IgnoresPrevent(w, key, ret) ==
    Let(EmitArg(w, "handleKeyDown", key), LAMBDA w1 :
        IF w1.opts.triggerStrategy # "hover" /\ key = "Escape"
        THEN IF w1.dataState = "open" THEN Hide(w1, ret) ELSE w1
        ELSE w1)

HandleKeyDown(w, key, ret) ==
    Let(EmitArg(w, "handleKeyDown", key), LAMBDA w1 :
        IF w1.opts.triggerStrategy # "hover" /\ key = "Escape"
        THEN IF w1.dataState = "open"
             THEN IF ~w1.opts.preventFromCloseOutside THEN Hide(w1, ret) ELSE w1
             ELSE w1
        ELSE w1)

AddEventOnMouseEnter(w) ==
    Let(w, LAMBDA w0 :
        AddEventListener(
            AddEventListener(w0, w0.triggerElement, "mouseleave",
                             "hideOnMouseLeaseTrigger"),
            "content", "mouseleave", "hideOnMouseLeave"))

\* the click toggle comparing the state with a token it never has
ToggleStateOnClick_WrongToken(w, ret) ==
    Let(EmitArg(w, "toggleStateOnClick", ""), LAMBDA w1 :
        IF (IF w1.dataState = NoAttribute THEN "close" ELSE w1.dataState) = "closed"
        THEN Show(w1)
        ELSE Hide(w1, ret))

ToggleStateOnClick(w, ret) ==
    Let(EmitArg(w, "toggleStateOnClick", ""), LAMBDA w1 :
        IF (IF w1.dataState = NoAttribute THEN "close" ELSE w1.dataState) = "close"
        THEN Let(Show(w1), LAMBDA w2 :
                 IF w2.opts.triggerStrategy = "hover"
                 THEN AddEventOnMouseEnter(w2)
                 ELSE w2)
        ELSE Hide(w1, ret))

\* the mouseleave listeners only schedule the deferred check
SetTimeout(w, handler) == [w EXCEPT !.timers = Append(@, handler)]

\* el.matches(":hover")
MatchesHover(w, el) == (w.hover = el)

\* the trigger's deferred check looking at the trigger instead of the content
HideOnMouseLeaseTriggerCheck_ChecksTrigger(w, ret) ==
    Let(EmitArg(w, "timeout", "hideOnMouseLeaseTrigger"), LAMBDA w1 :
        IF ~MatchesHover(w1, w1.triggerElement) THEN Hide(w1, ret) ELSE w1)

\* the deferred check of hideOnMouseLeaseTrigger
HideOnMouseLeaseTriggerCheck(w, ret) ==
    Let(EmitArg(w, "timeout", "hideOnMouseLeaseTrigger"), LAMBDA w1 :
        IF ~MatchesHover(w1, "content") THEN Hide(w1, ret) ELSE w1)

\* the deferred check of hideOnMouseLeave
HideOnMouseLeaveCheck(w, ret) ==
    Let(EmitArg(w, "timeout", "hideOnMouseLeave"), LAMBDA w1 :
        IF ~MatchesHover(w1, w1.triggerElement) THEN Hide(w1, ret) ELSE w1)

ShowOnMouseEnter(w) ==
    AddEventOnMouseEnter(Show(EmitArg(w, "showOnMouseEnter", "")))

\* setShowOptions that opens without reconfiguring the popper
SetShowOptions_KeepsPlacement(w, placement, offsetDistance) ==
    Show(Emit(w, "setOptions"))

SetShowOptions(w, placement, offsetDistance) ==
    Let(SetOptions(w, placement, offsetDistance), LAMBDA w1 :
    Let(EmitArg(AddEventListener(w1, "document", "keydown", "handleKeyDown"),
                "addEventListener", "keydown"), LAMBDA w2 :
    Let(EmitArg(AddEventListener(w2, "document", "click", "handleDocumentClick"),
                "addEventListener", "click"), LAMBDA w3 :
    Let(EmitArg(w3, "beforeShow", ""), LAMBDA w4 :
    Let(UpdateOverlayState(w4, "open"), LAMBDA w5 :
    Let(OnToggleState(w5, FALSE), LAMBDA w6 :
        EmitArg(w6, "onShow", "")))))))

SetPopperOptions(w, placement, offsetDistance) ==
    Let(w, LAMBDA w0 :
        SetOptions(w0, placement, OrOffset(offsetDistance, w0.opts.offsetDistance)))

Cleanup(w) ==
    Let(w, LAMBDA w0 :
    Let(RemoveEventListener(w0, w0.triggerElement, "click", "toggleStateOnClick"),
        LAMBDA w1 :
        IF w1.opts.triggerStrategy = "hover"
        THEN RemoveEventListener(w1, w1.triggerElement, "mouseenter",
                                 "showOnMouseEnter")
        ELSE w1))

SetPopperTrigger(w, trigger, placement, offsetDistance) ==
    Let(Cleanup(w), LAMBDA w1 :
    Let(SetOptions(w1, OrPlacement(placement, w1.opts.placement),
                   OrOffset(offsetDistance, w1.opts.offsetDistance)), LAMBDA w2 :
    Let([w2 EXCEPT !.triggerElement = trigger], LAMBDA w3 :
    Let(AddEventListener(w3, w3.triggerElement, "click", "toggleStateOnClick"),
        LAMBDA w4 :
        IF w4.opts.triggerStrategy = "hover"
        THEN AddEventListener(w4, w4.triggerElement, "mouseenter", "showOnMouseEnter")
        ELSE w4))))

\* initInstance that never runs show(), whatever defaultState is
InitInstance_NeverShows(w) ==
    Let(UpdateOverlayState(w, w.opts.defaultState), LAMBDA w1 :
        AddEventListener(w1, w1.triggerElement, "click", "toggleStateOnClick"))

InitInstance(w) ==
    Let(UpdateOverlayState(w, w.opts.defaultState), LAMBDA w1 :
    Let(IF w1.opts.defaultState = "open"
        THEN Show(w1)
        ELSE UpdateOverlayState(w1, "close"), LAMBDA w2 :
    Let(AddEventListener(w2, w2.triggerElement, "click", "toggleStateOnClick"),
        LAMBDA w3 :
        IF w3.opts.triggerStrategy = "hover"
        THEN AddEventListener(w3, w3.triggerElement, "mouseenter", "showOnMouseEnter")
        ELSE w3)))

DefaultOffsetDistance == 6

\* the fields the constructor sets from the options
OverlayFields(options) ==
    [triggerStrategy |->
         IF options.triggerStrategy = "undefined" THEN "click"
         ELSE options.triggerStrategy,
     placement |-> OrPlacement(options.placement, "bottom"),
     offsetDistance |-> OrOffset(options.offsetDistance, DefaultOffsetDistance),
     preventFromCloseOutside |-> options.preventFromCloseOutside,
     preventFromCloseInside |-> options.preventCloseFromInside,
     defaultState |->
         IF options.defaultState = "undefined" THEN "close"
         ELSE options.defaultState]

\* new CreateOverlay({trigger, content, options}) in a fresh document
Constructor(trigger, options, env) ==
    Let(OverlayFields(options), LAMBDA o :
        InitInstance(
            [opts |-> o,
             triggerElement |-> trigger,
             popper |-> NewPopper(trigger, "content",
                          [placement |-> o.placement,
                           offsetDistance |-> o.offsetDistance,
                           disableOnResize |-> options.disableOnResize,
                           disableOnScroll |-> options.disableOnScroll,
                           onUpdate |-> FALSE]),
             dataState |-> NoAttribute,
             ariaExpanded |-> [t \in Triggers |-> NoAttribute],
             listeners |-> {},
             style |-> [x |-> EmptyValue, y |-> EmptyValue],
             hover |-> env.hover,
             scrollY |-> env.scrollY,
             windowWidth |-> env.windowWidth,
             cssTransition |-> env.cssTransition,
             pendingTransitions |-> 0,
             timers |-> <<>>,
             log |-> <<>>,
             removeCalls |-> 0]))

\* the constructor writing the attributes before it checks the elements
ConstructOverlay_ChecksLast(w, trigger, content, options) ==
    IF trigger = NoElement
    THEN Throw(w, "Trigger element must be a valid HTML element")
    ELSE IF content = NoElement
    THEN Throw(UpdateOverlayState([w EXCEPT !.triggerElement = trigger], "close"),
               "Content element must be a valid HTML element")
    ELSE Constructor(trigger, options,
                     [hover |-> w.hover, scrollY |-> w.scrollY,
                      windowWidth |-> w.windowWidth,
                      cssTransition |-> w.cssTransition])

\* new CreateOverlay({trigger, content, options}) on the page w: trigger and
\* content are what getElement resolved, an element or nothing
ConstructOverlay(w, trigger, content, options) ==
    IF trigger = NoElement
    THEN Throw(w, "Trigger element must be a valid HTML element")
    ELSE IF content = NoElement
    THEN Throw(w, "Content element must be a valid HTML element")
    ELSE Constructor(trigger, options,
                     [hover |-> w.hover, scrollY |-> w.scrollY,
                      windowWidth |-> w.windowWidth,
                      cssTransition |-> w.cssTransition])

----------------------------------------------------------------------------
(* The state machine *)

\* an event or call with every input it takes; content and defaultState
\* are inputs of the constructors only
OpNew(name, target, content, defaultState, placement, offsetDistance) ==
    [op |-> name, target |-> target, content |-> content,
     defaultState |-> defaultState, placement |-> placement,
     offsetDistance |-> offsetDistance]

Op(name, target, placement, offsetDistance) ==
    OpNew(name, target, "", "", placement, offsetDistance)

\* the world a handler leaves behind becomes the next state
Commit(result, op) ==
    \E w \in {result} :
    /\ w.pendingTransitions <= MaxPending
    /\ Len(w.timers) <= MaxTimers
    /\ opts' = w.opts
    /\ triggerElement' = w.triggerElement
    /\ popper' = w.popper
    /\ dataState' = w.dataState
    /\ ariaExpanded' = w.ariaExpanded
    /\ listeners' = w.listeners
    /\ style' = w.style
    /\ hover' = w.hover
    /\ scrollY' = w.scrollY
    /\ windowWidth' = w.windowWidth
    /\ cssTransition' = w.cssTransition
    /\ pendingTransitions' = w.pendingTransitions
    /\ timers' = w.timers
    /\ log' = w.log
    /\ lastOp' = op
    /\ removeCalls' = w.removeCalls
    /\ probe' = probe
    /\ measure' = measure
    /\ clickRun' =
         IF op.op = "Click" /\ op.target = triggerElement
         THEN [clickRun EXCEPT !.odd = clickRun.counting /\ ~@]
         ELSE [counting |-> (w.dataState = "close"), odd |-> FALSE]

Environments ==
    [hover : {"outside"}, scrollY : {0}, windowWidth : {1000},
     cssTransition : BOOLEAN]

InitWith(options, env) ==
    \E w \in {Constructor("t1", options, env)} :
       /\ opts = w.opts
       /\ triggerElement = w.triggerElement
       /\ popper = w.popper
       /\ dataState = w.dataState
       /\ ariaExpanded = w.ariaExpanded
       /\ listeners = w.listeners
       /\ style = w.style
       /\ hover = w.hover
       /\ scrollY = w.scrollY
       /\ windowWidth = w.windowWidth
       /\ cssTransition = w.cssTransition
       /\ pendingTransitions = w.pendingTransitions
       /\ timers = w.timers
       /\ log = w.log
       /\ lastOp = Op("new", "t1", UndefinedPlacement, UndefinedOffset)
       /\ removeCalls = w.removeCalls
       /\ probe = NoProbe
       /\ measure = NoMeasure
       /\ clickRun = [counting |-> (w.dataState = "close"), odd |-> FALSE]

\* the options object omitted: every option takes its default
DefaultOptions ==
    [triggerStrategy |-> "undefined", placement |-> UndefinedPlacement,
     offsetDistance |-> UndefinedOffset, preventFromCloseOutside |-> FALSE,
     preventCloseFromInside |-> FALSE, defaultState |-> "undefined",
     disableOnResize |-> FALSE, disableOnScroll |-> FALSE]

InitDefault == \E env \in Environments : InitWith(DefaultOptions, env)

Has(w, target, type, handler) == <<target, type, handler>> \in w.listeners

BeforeHideReturns == {"void", "cancelAction"}

\* a click event dispatched at target, bubbling to the document
DispatchClick(w, target, ret) ==
    Let(w, LAMBDA w0 :
    Let(IF Has(w0, target, "click", "toggleStateOnClick")
        THEN ToggleStateOnClick(w0, ret)
        ELSE w0, LAMBDA w1 :
        IF Has(w1, "document", "click", "handleDocumentClick")
        THEN HandleDocumentClick(w1, target, ret)
        ELSE w1))

Click ==
    \E target \in Targets, ret \in BeforeHideReturns :
        Commit(DispatchClick(World, target, ret),
               Op("Click", target, UndefinedPlacement, UndefinedOffset))

KeyDown ==
    \E key \in Keys, ret \in BeforeHideReturns :
        Commit(IF Has(World, "document", "keydown", "handleKeyDown")
               THEN HandleKeyDown(World, key, ret)
               ELSE World,
               Op("KeyDown", key, UndefinedPlacement, UndefinedOffset))

\* mouseleave on the element the cursor leaves: its listeners schedule
\* their deferred checks
DispatchMouseLeave(w, from) ==
    Let(w, LAMBDA w0 :
    Let(IF Has(w0, from, "mouseleave", "hideOnMouseLeaseTrigger")
        THEN SetTimeout(w0, "hideOnMouseLeaseTrigger")
        ELSE w0, LAMBDA w1 :
        IF Has(w1, from, "mouseleave", "hideOnMouseLeave")
        THEN SetTimeout(w1, "hideOnMouseLeave")
        ELSE w1))

DispatchMouseEnter(w, to) ==
    Let(w, LAMBDA w0 :
        IF Has(w0, to, "mouseenter", "showOnMouseEnter")
        THEN ShowOnMouseEnter(w0)
        ELSE w0)

\* the cursor moves from the element it is on to another one
MouseMove ==
    \E to \in Targets \ {hover} :
        Commit(DispatchMouseEnter(
                   DispatchMouseLeave([World EXCEPT !.hover = to], hover), to),
               Op("MouseMove", to, UndefinedPlacement, UndefinedOffset))

\* the oldest pending 150ms timer fires
TimerFire ==
    /\ timers # <<>>
    /\ \E ret \in BeforeHideReturns :
        Commit(IF Head(timers) = "hideOnMouseLeaseTrigger"
               THEN HideOnMouseLeaseTriggerCheck([World EXCEPT !.timers = Tail(@)], ret)
               ELSE HideOnMouseLeaveCheck([World EXCEPT !.timers = Tail(@)], ret),
               Op("TimerFire", Head(timers), UndefinedPlacement, UndefinedOffset))

\* transitionend on the content: one waiting afterTransition callback runs
TransitionEnd ==
    /\ pendingTransitions > 0
    /\ Commit(TransitionCallback([World EXCEPT !.pendingTransitions = @ - 1]),
              Op("TransitionEnd", "content", UndefinedPlacement, UndefinedOffset))

WindowResize ==
    \E width \in WindowWidths \ {windowWidth} :
        Commit(IF Has(World, "window", "resize", "initPositionate")
               THEN InitPositionate([World EXCEPT !.windowWidth = width])
               ELSE [World EXCEPT !.windowWidth = width],
               Op("WindowResize", "window", UndefinedPlacement, UndefinedOffset))

WindowScroll ==
    \E scroll \in ScrollOffsets \ {scrollY} :
        Commit(IF Has(World, "window", "scroll", "initPositionate")
               THEN InitPositionate([World EXCEPT !.scrollY = scroll])
               ELSE [World EXCEPT !.scrollY = scroll],
               Op("WindowScroll", "window", UndefinedPlacement, UndefinedOffset))

CallShow ==
    Commit(Show(World), Op("show", "", UndefinedPlacement, UndefinedOffset))

CallHide ==
    \E ret \in BeforeHideReturns :
        Commit(Hide(World, ret), Op("hide", "", UndefinedPlacement, UndefinedOffset))

CallSetShowOptions ==
    \E placement \in CallPlacements, d \in CallOffsets \cup {UndefinedOffset} :
        Commit(SetShowOptions(World, placement, d),
               Op("setShowOptions", "", placement, d))

CallSetPopperOptions ==
    \E placement \in CallPlacements, d \in CallOffsets \cup {UndefinedOffset} :
        Commit(SetPopperOptions(World, placement, d),
               Op("setPopperOptions", "", placement, d))

CallSetPopperTrigger ==
    \E trigger \in Triggers,
       placement \in CallPlacements \cup {UndefinedPlacement},
       d \in CallOffsets \cup {UndefinedOffset} :
        Commit(SetPopperTrigger(World, trigger, placement, d),
               Op("setPopperTrigger", trigger, placement, d))

CallCleanup ==
    Commit(Cleanup(World), Op("cleanup", "", UndefinedPlacement, UndefinedOffset))

Next ==
    \/ Click
    \/ KeyDown
    \/ MouseMove
    \/ TimerFire
    \/ TransitionEnd
    \/ WindowResize
    \/ WindowScroll
    \/ CallShow
    \/ CallHide
    \/ CallSetShowOptions
    \/ CallSetPopperOptions
    \/ CallSetPopperTrigger
    \/ CallCleanup

\* with the click strategy no mouse listener is ever registered and no
\* timer is ever scheduled
NextClick ==
    \/ Click
    \/ KeyDown
    \/ TransitionEnd
    \/ WindowResize
    \/ WindowScroll
    \/ CallShow
    \/ CallHide
    \/ CallSetShowOptions
    \/ CallSetPopperOptions
    \/ CallSetPopperTrigger
    \/ CallCleanup

SpecDefault == InitDefault /\ [][NextClick]_vars


\* the user's interaction with the page and the show/hide calls, for both
\* trigger strategies
InitInteract ==
    \E strategy \in {"click", "hover"}, outside \in BOOLEAN, env \in Environments :
        InitWith([DefaultOptions EXCEPT !.triggerStrategy = strategy,
                                        !.preventFromCloseOutside = outside], env)

NextInteract ==
    \/ Click
    \/ KeyDown
    \/ MouseMove
    \/ TimerFire
    \/ TransitionEnd
    \/ CallShow
    \/ CallHide

SpecInteract == InitInteract /\ [][NextInteract]_vars

\* the click strategy under every combination of the dismissal options
InitClick ==
    \E outside \in BOOLEAN, inside \in BOOLEAN, state \in {"open", "close"},
       env \in Environments :
        InitWith([DefaultOptions EXCEPT !.preventFromCloseOutside = outside,
                                        !.preventCloseFromInside = inside,
                                        !.defaultState = state], env)

\* clicks, keys, transitions and the calls that open, close or re-target
\* the overlay
NextDismiss ==
    \/ Click
    \/ KeyDown
    \/ TransitionEnd
    \/ CallShow
    \/ CallHide
    \/ CallSetPopperTrigger
    \/ CallCleanup

SpecClick == InitClick /\ [][NextDismiss]_vars

\* the hover strategy with the calls that re-target and release the overlay
InitHover ==
    \E env \in Environments :
        InitWith([DefaultOptions EXCEPT !.triggerStrategy = "hover"], env)

NextHover ==
    \/ MouseMove
    \/ TimerFire
    \/ TransitionEnd
    \/ CallSetPopperTrigger
    \/ CallCleanup

SpecHover == InitHover /\ [][NextHover]_vars

----------------------------------------------------------------------------
(* The popper controller used on its own: new CreatePopper(reference,      *)
(* popper, options) on a page without an overlay, driven through its       *)
(* public methods and the window's resize and scroll events.               *)

\* the options the page passes to the constructor
PopperOptionSets ==
    [placement : {"bottom", "left-end"}, offsetDistance : {6},
     disableOnResize : BOOLEAN, disableOnScroll : BOOLEAN, onUpdate : BOOLEAN]

\* the arguments the page passes to setOptions
SetOptionsPlacements == {"right-start", "top"}
SetOptionsOffsets == {UndefinedOffset, 0, 10}

InitPopper ==
    \E options \in PopperOptionSets :
        /\ opts = OverlayFields(DefaultOptions)
        /\ triggerElement = "t1"
        /\ popper = NewPopper("t1", "content", options)
        /\ dataState = NoAttribute
        /\ ariaExpanded = [t \in Triggers |-> NoAttribute]
        /\ listeners = {}
        /\ style = [x |-> EmptyValue, y |-> EmptyValue]
        /\ hover = "outside"
        /\ scrollY = 0
        /\ windowWidth = 1000
        /\ cssTransition = FALSE
        /\ pendingTransitions = 0
        /\ timers = <<>>
        /\ log = <<>>
        /\ lastOp = Op("new", "t1", options.placement, options.offsetDistance)
        /\ removeCalls = 0
        /\ probe = NoProbe
        /\ measure = NoMeasure
        /\ clickRun = [counting |-> FALSE, odd |-> FALSE]

CallUpdatePosition ==
    Commit(UpdatePosition(World),
           Op("updatePosition", "", UndefinedPlacement, UndefinedOffset))

CallSetOptions ==
    \E placement \in SetOptionsPlacements, d \in SetOptionsOffsets :
        Commit(SetOptions(World, placement, d), Op("setOptions", "", placement, d))

CallCleanupEvents ==
    Commit(CleanupEvents(World),
           Op("cleanupEvents", "", UndefinedPlacement, UndefinedOffset))

CallResetPosition ==
    Commit(ResetPosition(World),
           Op("resetPosition", "", UndefinedPlacement, UndefinedOffset))

NextPopper ==
    \/ CallUpdatePosition
    \/ CallSetOptions
    \/ CallCleanupEvents
    \/ CallResetPosition
    \/ WindowResize
    \/ WindowScroll

SpecPopper == InitPopper /\ [][NextPopper]_vars

----------------------------------------------------------------------------
(* Construction: a page with the elements and no controller yet, on which  *)
(* a popper controller or an overlay is constructed from arguments that    *)
(* may be invalid, and the popper controller is then used.                 *)

InitPage ==
    \E transition \in BOOLEAN :
        /\ opts = OverlayFields(DefaultOptions)
        /\ triggerElement = NoElement
        /\ popper = NoPopper
        /\ dataState = NoAttribute
        /\ ariaExpanded = [t \in Triggers |-> NoAttribute]
        /\ listeners = {}
        /\ style = [x |-> EmptyValue, y |-> EmptyValue]
        /\ hover = "outside"
        /\ scrollY = 0
        /\ windowWidth = 1000
        /\ cssTransition = transition
        /\ pendingTransitions = 0
        /\ timers = <<>>
        /\ log = <<>>
        /\ lastOp = Op("load", "", UndefinedPlacement, UndefinedOffset)
        /\ removeCalls = 0
        /\ probe = NoProbe
        /\ measure = NoMeasure
        /\ clickRun = [counting |-> FALSE, odd |-> FALSE]

\* the offsetDistance values callers pass
AnyOffsets == {UndefinedOffset, 0, 10} \cup NonNumbers

NewCreatePopper ==
    /\ popper = NoPopper
    /\ \E reference \in {"t1", NoElement}, popperEl \in {"content", NoElement},
          placement \in {UndefinedPlacement, "top"}, d \in AnyOffsets,
          onUpdate \in BOOLEAN :
        Commit(CreatePopperConstructor(World, reference, popperEl,
                   [placement |-> placement, offsetDistance |-> d,
                    disableOnResize |-> FALSE, disableOnScroll |-> FALSE,
                    onUpdate |-> onUpdate]),
               OpNew("new CreatePopper", reference, popperEl, "", placement, d))

NewCreateOverlay ==
    /\ popper = NoPopper
    /\ \E trigger \in {"t1", NoElement}, content \in {"content", NoElement},
          state \in {"undefined", "open", "close"} :
        Commit(ConstructOverlay(World, trigger, content,
                   [DefaultOptions EXCEPT !.defaultState = state]),
               OpNew("new CreateOverlay", trigger, content, state,
                     UndefinedPlacement, UndefinedOffset))

\* the popper controller constructed on its own
Standalone == popper # NoPopper /\ triggerElement = NoElement

PageUpdatePosition == Standalone /\ CallUpdatePosition

PageSetOptions ==
    /\ Standalone
    /\ \E placement \in SetOptionsPlacements, d \in AnyOffsets :
        Commit(SetOptions(World, placement, d), Op("setOptions", "", placement, d))

NextConstruct ==
    \/ NewCreatePopper
    \/ NewCreateOverlay
    \/ PageUpdatePosition
    \/ PageSetOptions

SpecConstruct == InitPage /\ [][NextConstruct]_vars

----------------------------------------------------------------------------
(* The placement resolver called directly *)

\* the geometries the resolver is called with: a 1000 x 1000 viewport, a
\* 100 x 100 reference in the middle or 4px from an edge, a popper that is
\* small, medium or larger than the viewport
ResolveOffsets == {0, 10}
ResolveViewports == {1000}
ResolveRefExtents == {100}
ResolveRefStarts == {4, 450, 896}
ResolvePopperExtents == {20, 50, 1100}

ResolveContexts ==
    {[placement |-> p, refWidth |-> re, refTop |-> rt, refLeft |-> rl,
      popperWidth |-> pw, refHeight |-> re, popperHeight |-> ph,
      windowHeight |-> v, windowWidth |-> v, offsetDistance |-> d] :
        p \in Placements, d \in ResolveOffsets, v \in ResolveViewports,
        re \in ResolveRefExtents, rt \in ResolveRefStarts,
        rl \in ResolveRefStarts, pw \in ResolvePopperExtents,
        ph \in ResolvePopperExtents}

CallDeterminePosition ==
    \E ctx \in ResolveContexts :
    \E pos \in {DeterminePosition(ctx)} :
        /\ probe' = [called |-> TRUE, ctx |-> ctx, x |-> pos.x, y |-> pos.y]
        /\ lastOp' = Op("determinePosition", "", ctx.placement, ctx.offsetDistance)
        /\ UNCHANGED <<opts, triggerElement, popper, dataState, ariaExpanded,
                       listeners, style, hover, scrollY, windowWidth,
                       cssTransition, pendingTransitions, timers, log,
                       removeCalls, measure, clickRun>>

NextResolve == CallDeterminePosition

SpecResolve == InitPage /\ [][NextResolve]_vars

----------------------------------------------------------------------------
(* The dimension reader called directly *)

CallGetDimensions ==
    /\ measure.n < MaxDimensionCalls
    /\ \E reference \in Elements \cup {NoElement},
          popperEl \in Elements \cup {NoElement} :
        /\ measure' = GetDimensionsOf(measure, reference, popperEl, scrollY)
        /\ lastOp' = Op("getDimensions", reference, UndefinedPlacement, UndefinedOffset)
    /\ UNCHANGED <<opts, triggerElement, popper, dataState, ariaExpanded,
                   listeners, style, hover, scrollY, windowWidth,
                   cssTransition, pendingTransitions, timers, log,
                   removeCalls, probe, clickRun>>

\* the page scrolls between two calls
ScrollBetweenCalls ==
    /\ \E y \in ScrollOffsets : y # scrollY /\ scrollY' = y
    /\ lastOp' = Op("scroll", "", UndefinedPlacement, UndefinedOffset)
    /\ UNCHANGED <<opts, triggerElement, popper, dataState, ariaExpanded,
                   listeners, style, hover, windowWidth,
                   cssTransition, pendingTransitions, timers, log,
                   removeCalls, probe, measure, clickRun>>

NextMeasure ==
    \/ CallGetDimensions
    \/ ScrollBetweenCalls

SpecMeasure == InitPage /\ [][NextMeasure]_vars

----------------------------------------------------------------------------
(* Observations used by the properties *)

\* the handler that produced this state recorded step e
HasEv(lg, e) == \E i \in 1..Len(lg) : lg[i].ev = e

HasEvArg(lg, e, a) == \E i \in 1..Len(lg) : lg[i].ev = e /\ lg[i].arg = a

\* hide() ran in the handler
HideRan(lg) == HasEv(lg, "beforeHide")

\* hide() was called by the document click handler
DocumentHandlerHid(lg) ==
    \E i, j \in 1..Len(lg) :
        i < j /\ lg[i].ev = "handleDocumentClick" /\ lg[j].ev = "beforeHide"

WindowListeners == {l \in listeners : l[1] = "window"}

IsDefaultOverlay ==
    /\ opts.triggerStrategy = "click"
    /\ ~opts.preventFromCloseOutside
    /\ ~opts.preventFromCloseInside
    /\ opts.defaultState = "close"

TriggerListens == <<triggerElement, "click", "toggleStateOnClick">> \in listeners

----------------------------------------------------------------------------
(* C1: with default options, a click on the trigger of a closed overlay    *)
(* sets data-state "open" and aria-expanded "true"; a document click       *)
(* outside trigger and content on the open overlay sets data-state "close" *)
(* in that same step; and whenever the transition-completion callback has  *)
(* run, the popper's window resize and scroll listeners are detached.      *)
C1_DefaultScenario ==
    [][/\ (/\ IsDefaultOverlay
           /\ lastOp'.op = "Click" /\ lastOp'.target = triggerElement
           /\ TriggerListens /\ dataState = "close")
          => (dataState' = "open" /\ ariaExpanded'[triggerElement] = "true")
       /\ (/\ IsDefaultOverlay
           /\ lastOp'.op = "Click"
           /\ lastOp'.target \notin {triggerElement, "content"}
           /\ dataState = "open")
          => (dataState' = "close" /\ HideRan(log'))
       /\ (IsDefaultOverlay /\ HasEv(log', "transitionCallback"))
          => (/\ HasEv(log', "cleanupEvents")
              /\ {l \in listeners' : l[1] = "window"} = {})
      ]_vars

C1_Witness ==
    /\ IsDefaultOverlay
    /\ lastOp.op = "TransitionEnd"
    /\ HasEv(log, "cleanupEvents")
    /\ dataState = "close"
    /\ WindowListeners = {}
    /\ ~popper.isEventRegistrer

(* C2: with the click strategy, a click on the (listening) trigger flips   *)
(* the overlay: from "close" or no attribute it runs show() and the state  *)
(* becomes "open", from "open" it runs hide() and the state becomes        *)
(* "close"; so after a run of trigger clicks from a closed overlay the     *)
(* overlay is open exactly when the number of clicks is odd.               *)
C2_ClickFlips ==
    /\ [](opts.triggerStrategy = "click" /\ clickRun.counting /\ TriggerListens
            => (dataState = "open" <=> clickRun.odd))
    /\ [][(/\ opts.triggerStrategy = "click"
           /\ lastOp'.op = "Click" /\ lastOp'.target = triggerElement
           /\ TriggerListens)
          => IF dataState \in {"close", NoAttribute}
             THEN HasEv(log', "onShow") /\ dataState' = "open"
             ELSE HideRan(log') /\ dataState' = "close"]_vars

C2_Witness ==
    /\ opts.triggerStrategy = "click"
    /\ lastOp.op = "Click" /\ lastOp.target = triggerElement
    /\ TriggerListens
    /\ clickRun.counting /\ ~clickRun.odd
    /\ dataState = "close"

(* C3: while the overlay is open, the document click handler closes it for *)
(* a click outside trigger and content exactly when                        *)
(* preventFromCloseOutside is not set, for a click inside the content      *)
(* exactly when preventCloseFromInside is not set, and never for a click   *)
(* inside the trigger.                                                     *)
C3_DocumentClickDismissal ==
    [][(lastOp'.op = "Click" /\ dataState = "open")
       => /\ lastOp'.target \notin {triggerElement, "content"}
             => /\ DocumentHandlerHid(log') <=> ~opts.preventFromCloseOutside
                /\ dataState' = "close" <=> ~opts.preventFromCloseOutside
          /\ lastOp'.target = "content"
             => /\ DocumentHandlerHid(log') <=> ~opts.preventFromCloseInside
                /\ dataState' = "close" <=> ~opts.preventFromCloseInside
          /\ lastOp'.target = triggerElement
             => ~DocumentHandlerHid(log')
      ]_vars

C3_Witness ==
    /\ lastOp.op = "Click" /\ lastOp.target = "outside"
    /\ opts.preventFromCloseInside /\ ~opts.preventFromCloseOutside
    /\ DocumentHandlerHid(log)
    /\ dataState = "close"

(* C4, as claimed: while the overlay is open and preventFromCloseOutside   *)
(* is set, a document click inside the content does not close it.          *)
C4_AsClaimed ==
    [][(/\ lastOp'.op = "Click" /\ lastOp'.target = "content"
        /\ dataState = "open" /\ opts.preventFromCloseOutside)
       => dataState' = "open"]_vars

(* C4, amended: while the overlay is open and preventFromCloseOutside is   *)
(* set, a document click inside the content closes the overlay exactly     *)
(* when preventCloseFromInside is not set.                                 *)
C4_InsideClickUnderOutsideFlag ==
    [][(/\ lastOp'.op = "Click" /\ lastOp'.target = "content"
        /\ dataState = "open" /\ opts.preventFromCloseOutside)
       => /\ HasEv(log', "handleDocumentClick")
          /\ dataState' = "close" <=> ~opts.preventFromCloseInside
          /\ HideRan(log') <=> ~opts.preventFromCloseInside]_vars

C4_Witness ==
    /\ lastOp.op = "Click" /\ lastOp.target = "content"
    /\ opts.preventFromCloseOutside /\ ~opts.preventFromCloseInside
    /\ DocumentHandlerHid(log)
    /\ dataState = "close"

(* C5: while the overlay is open, an Escape keydown closes it exactly when *)
(* the strategy is not "hover" and preventFromCloseOutside is not set; any *)
(* other key, and any key while it is closed, leaves data-state unchanged. *)
C5_EscapeKey ==
    [][lastOp'.op = "KeyDown"
       => IF dataState = "open" /\ lastOp'.target = "Escape"
          THEN /\ dataState' = "close"
                    <=> (opts.triggerStrategy # "hover"
                         /\ ~opts.preventFromCloseOutside)
               /\ dataState' \in {"open", "close"}
          ELSE dataState' = dataState
      ]_vars

C5_Witness ==
    /\ lastOp.op = "KeyDown" /\ lastOp.target = "Escape"
    /\ opts.triggerStrategy = "click" /\ ~opts.preventFromCloseOutside
    /\ HasEv(log, "handleKeyDown") /\ HideRan(log)
    /\ dataState = "close"

(* C6: with the hover strategy, mouseenter on the trigger opens the        *)
(* overlay and arms the leave watchers on trigger and content; a           *)
(* mouseleave on a watched element schedules the deferred check; and when  *)
(* the check of the trigger (resp. the content) fires, hide() runs exactly *)
(* when the content (resp. the trigger) is not hovered at that moment,     *)
(* otherwise data-state is left as it is.                                  *)
C6_HoverLeave ==
    [][/\ (/\ opts.triggerStrategy = "hover"
           /\ lastOp'.op = "MouseMove" /\ lastOp'.target = triggerElement
           /\ <<triggerElement, "mouseenter", "showOnMouseEnter">> \in listeners)
          => /\ dataState' = "open"
             /\ <<triggerElement, "mouseleave", "hideOnMouseLeaseTrigger">>
                    \in listeners'
             /\ <<"content", "mouseleave", "hideOnMouseLeave">> \in listeners'
       /\ (/\ lastOp'.op = "MouseMove"
           /\ hover = triggerElement
           /\ <<triggerElement, "mouseleave", "hideOnMouseLeaseTrigger">>
                  \in listeners)
          => timers' = Append(timers, "hideOnMouseLeaseTrigger")
       /\ (/\ lastOp'.op = "MouseMove"
           /\ hover = "content"
           /\ <<"content", "mouseleave", "hideOnMouseLeave">> \in listeners)
          => timers' = Append(timers, "hideOnMouseLeave")
       /\ (lastOp'.op = "TimerFire" /\ lastOp'.target = "hideOnMouseLeaseTrigger")
          => /\ HideRan(log') <=> hover # "content"
             /\ dataState' = IF hover # "content" THEN "close" ELSE dataState
       /\ (lastOp'.op = "TimerFire" /\ lastOp'.target = "hideOnMouseLeave")
          => /\ HideRan(log') <=> hover # triggerElement
             /\ dataState' = IF hover # triggerElement THEN "close" ELSE dataState
      ]_vars

C6_Witness ==
    /\ opts.triggerStrategy = "hover"
    /\ lastOp.op = "TimerFire" /\ lastOp.target = "hideOnMouseLeaseTrigger"
    /\ hover = "content"
    /\ ~HideRan(log)
    /\ dataState = "open"

(* C7: with the hover strategy, when the deferred check of an element the  *)
(* cursor has left fires while the cursor is back on that same element,    *)
(* the check does nothing and an open overlay stays open.                  *)
C7_ReenterKeepsOpen ==
    [][(/\ opts.triggerStrategy = "hover"
        /\ lastOp'.op = "TimerFire"
        /\ dataState = "open"
        /\ \/ lastOp'.target = "hideOnMouseLeaseTrigger" /\ hover = triggerElement
           \/ lastOp'.target = "hideOnMouseLeave" /\ hover = "content")
       => (dataState' = "open" /\ ~HideRan(log'))]_vars

C7_ReenterSetup ==
    /\ opts.triggerStrategy = "hover"
    /\ timers # <<>>
    /\ Head(timers) = "hideOnMouseLeaseTrigger"
    /\ hover = triggerElement
    /\ dataState = "open"

\* the entry at position i of a log, or an entry of no step
Entry(lg, i) ==
    IF i \in 1..Len(lg) THEN lg[i]
    ELSE [ev |-> "", state |-> "", arg |-> "", x |-> 0, y |-> 0,
          registered |-> FALSE]

(* C8: hide() calls beforeHide and then, whatever it returns, sets         *)
(* data-state "close" and aria-expanded "false" before returning;          *)
(* onToggle({isHidden:true}), cleanupEvents and onHide run in that order   *)
(* and only inside the transition-completion callback: when a transition   *)
(* is running none of them runs in the handler that called hide().         *)
C8_HideOrder ==
    /\ \A i \in 1..Len(log) :
         /\ log[i].ev = "beforeHide"
            => /\ Entry(log, i + 1).ev = "updateOverlayState"
               /\ Entry(log, i + 1).arg = "close"
               /\ Entry(log, i + 1).state = "close"
         /\ log[i].ev = "transitionCallback"
            => /\ Entry(log, i + 1).ev = "onToggle"
               /\ Entry(log, i + 1).arg = "isHidden:true"
               /\ Entry(log, i + 2).ev = "cleanupEvents"
               /\ Entry(log, i + 3).ev = "onHide"
         /\ (log[i].ev = "onToggle" /\ log[i].arg = "isHidden:true")
            => Entry(log, i - 1).ev = "transitionCallback"
         /\ log[i].ev = "cleanupEvents"
            => Entry(log, i - 2).ev = "transitionCallback"
         /\ log[i].ev = "onHide"
            => Entry(log, i - 3).ev = "transitionCallback"
    /\ HideRan(log)
       => /\ dataState = "close"
          /\ ariaExpanded[triggerElement] = "false"
          /\ cssTransition => ~HasEv(log, "transitionCallback")
          /\ ~cssTransition => HasEv(log, "onHide")
    /\ HasEv(log, "transitionCallback")
       => (IF cssTransition THEN lastOp.op = "TransitionEnd" ELSE HideRan(log))

C8_Witness ==
    /\ HasEvArg(log, "beforeHide", "cancelAction")
    /\ cssTransition
    /\ pendingTransitions > 0
    /\ dataState = "close"
    /\ ariaExpanded[triggerElement] = "false"
    /\ ~HasEv(log, "onHide")

\* the steps of show() start at position i of the log, in the order of
\* the source
ShowStepsAt(lg, i) ==
    /\ Entry(lg, i).ev = "updatePosition"
    /\ Entry(lg, i + 1).ev = "addEventListener" /\ Entry(lg, i + 1).arg = "keydown"
    /\ Entry(lg, i + 2).ev = "addEventListener" /\ Entry(lg, i + 2).arg = "click"
    /\ Entry(lg, i + 3).ev = "beforeShow"
    /\ Entry(lg, i + 4).ev = "updateOverlayState" /\ Entry(lg, i + 4).arg = "open"
    /\ Entry(lg, i + 5).ev = "onToggle" /\ Entry(lg, i + 5).arg = "isHidden:false"
    /\ Entry(lg, i + 6).ev = "onShow"

(* C9, as claimed: show() runs updatePosition, attaches the document       *)
(* keydown and click listeners, calls beforeShow, sets the attributes,     *)
(* calls onToggle({isHidden:false}) and onShow, in this order; beforeShow  *)
(* runs while data-state is not "open" and onShow while it is.             *)
C9_AsClaimed ==
    \A i \in 1..Len(log) :
        log[i].ev = "updatePosition"
        => /\ ShowStepsAt(log, i)
           /\ Entry(log, i + 3).state # "open"
           /\ Entry(log, i + 6).state = "open"

(* C9, amended: the same order; onShow runs while data-state is "open",    *)
(* and beforeShow runs before show() writes data-state, so it observes the *)
(* data-state show() was called with: not "open" unless the overlay was    *)
(* already open.                                                           *)
C9_ShowOrder ==
    \A i \in 1..Len(log) :
        log[i].ev = "updatePosition"
        => /\ ShowStepsAt(log, i)
           /\ Entry(log, i + 3).state = log[i].state
           /\ Entry(log, i + 4).state = "open"
           /\ Entry(log, i + 6).state = "open"

C9_Witness ==
    /\ lastOp.op = "show"
    /\ ShowStepsAt(log, 1)
    /\ log[4].state = "close"
    /\ dataState = "open"
    /\ ariaExpanded[triggerElement] = "true"

\* the style values a positioning from reference element el would set
StyleFrom(el, placement, offsetDistance) ==
    Let(ResolvedPosition(World, el, placement, offsetDistance), LAMBDA pos :
        [x |-> Px(pos.x), y |-> Px(pos.y)])

(* C10: after setPopperTrigger(newTrigger, options) the popper's reference *)
(* element is newTrigger: that call positions the popper from newTrigger's *)
(* rectangle, and so does every later show, resize or scroll.              *)
C10_ReferenceFollowsTrigger ==
    /\ popper.reference = triggerElement
    /\ lastOp.op = "setPopperTrigger"
       => style = StyleFrom(triggerElement,
                            OrPlacement(lastOp.placement, opts.placement),
                            OrOffset(lastOp.offsetDistance, opts.offsetDistance))
    /\ lastOp.op \in {"show", "WindowResize", "WindowScroll"} /\ style.x.set
       => style = StyleFrom(triggerElement, popper.placement, popper.offsetDistance)

\* the listeners of this overlay attached to element el
ListenersOn(ls, el) == {l \in ls : l[1] = el}

(* C11: setPopperTrigger(newTrigger, options) with a new trigger, in any   *)
(* state and under either strategy, leaves none of this overlay's          *)
(* listeners (click, mouseenter, mouseleave) on the old trigger, and       *)
(* leaves the click listener and, for the hover strategy, the mouseenter   *)
(* listener on the new trigger.                                            *)
C11_ListenersMoveToNewTrigger ==
    [][(lastOp'.op = "setPopperTrigger" /\ lastOp'.target # triggerElement)
       => /\ ListenersOn(listeners', triggerElement) = {}
          /\ <<lastOp'.target, "click", "toggleStateOnClick">> \in listeners'
          /\ opts.triggerStrategy = "hover"
             => <<lastOp'.target, "mouseenter", "showOnMouseEnter">> \in listeners'
      ]_vars

(* C12: after the overlay's cleanup() returns, in whatever state it was    *)
(* called, no trigger click or mouseenter listener, no document click or   *)
(* keydown listener and no window resize or scroll listener of the owned   *)
(* popper remains attached.                                                *)
C12_CleanupReleasesAll ==
    lastOp.op = "cleanup"
    => /\ <<triggerElement, "click", "toggleStateOnClick">> \notin listeners
       /\ <<triggerElement, "mouseenter", "showOnMouseEnter">> \notin listeners
       /\ ListenersOn(listeners, "document") = {}
       /\ ListenersOn(listeners, "window") = {}

(* C13: after construction and after every operation or handled event the  *)
(* content's data-state is "open" or "close", and the current trigger's    *)
(* aria-expanded is "true" exactly when data-state is "open" and "false"   *)
(* exactly when it is "close".                                             *)
C13_AttributeContract ==
    /\ dataState \in {"open", "close"}
    /\ ariaExpanded[triggerElement] = "true" <=> dataState = "open"
    /\ ariaExpanded[triggerElement] = "false" <=> dataState = "close"

----------------------------------------------------------------------------
(* The popper controller on its own *)

\* the style values a positioning from element el sets in a window of the
\* given scroll offset and width
StyleIn(el, placement, offsetDistance, scroll, width) ==
    Let(GetDimensions(el, "content", scroll), LAMBDA d :
    Let(DeterminePosition(
          [placement |-> placement,
           refWidth |-> d.refWidth, refTop |-> d.refTop, refLeft |-> d.refLeft,
           popperWidth |-> d.popperWidth, refHeight |-> d.refHeight,
           popperHeight |-> d.popperHeight,
           windowHeight |-> WindowHeight, windowWidth |-> width,
           offsetDistance |-> offsetDistance]), LAMBDA pos :
        [x |-> Px(pos.x), y |-> Px(pos.y)]))

ResizeListener == <<"window", "resize", "initPositionate">>
ScrollListener == <<"window", "scroll", "initPositionate">>

\* the window listeners the disable flags ask for
FlaggedListeners ==
    {l \in {ResizeListener} : ~popper.disableOnResize}
        \cup {l \in {ScrollListener} : ~popper.disableOnScroll}

\* a window event a registered listener handles
HandledWindowEvent(op, ls) ==
    \/ op = "WindowResize" /\ ResizeListener \in ls
    \/ op = "WindowScroll" /\ ScrollListener \in ls

\* the positions in lg of the onUpdate invocations
UpdateCalls(lg) == {i \in 1..Len(lg) : lg[i].ev = "onUpdate"}

\* what the onUpdate invocations in lg were handed
UpdateArguments(lg) ==
    {[x |-> lg[i].x, y |-> lg[i].y, placement |-> lg[i].arg] : i \in UpdateCalls(lg)}

EmptyStyle == [x |-> EmptyValue, y |-> EmptyValue]

(* C14: setOptions({placement: p, offsetDistance: d}) with a numeric d (0  *)
(* included) positions the popper with placement p and offset d, and so    *)
(* does the repositioning that follows it (a direct updatePosition() or a  *)
(* handled window resize or scroll event).                                 *)
C14_SetOptionsReplaces ==
    [][/\ (lastOp'.op = "setOptions" /\ lastOp'.offsetDistance # UndefinedOffset)
          => style' = StyleIn(popper.reference, lastOp'.placement,
                              lastOp'.offsetDistance, scrollY', windowWidth')
       /\ (/\ lastOp.op = "setOptions" /\ lastOp.offsetDistance # UndefinedOffset
           /\ \/ lastOp'.op = "updatePosition"
              \/ HandledWindowEvent(lastOp'.op, listeners))
          => style' = StyleIn(popper.reference, lastOp.placement,
                              lastOp.offsetDistance, scrollY', windowWidth')
      ]_vars

(* C15: after setOptions returns, from any prior state of the controller   *)
(* (never positioned, positioned or cleaned up), the resize listener is    *)
(* attached exactly when disableOnResize is false and the scroll listener  *)
(* exactly when disableOnScroll is false, and the listeners are marked     *)
(* registered.                                                             *)
C15_SetOptionsAttaches ==
    [][lastOp'.op = "setOptions"
       => /\ ResizeListener \in listeners' <=> ~popper.disableOnResize
          /\ ScrollListener \in listeners' <=> ~popper.disableOnScroll
          /\ Cardinality(ListenersOn(listeners', "window"))
                 = Cardinality(FlaggedListeners)
          /\ popper'.isEventRegistrer]_vars

C15_Witness ==
    /\ lastOp.op = "setOptions"
    /\ ~log[1].registered
    /\ popper.disableOnResize /\ ~popper.disableOnScroll
    /\ ListenersOn(listeners, "window") = {ScrollListener}
    /\ popper.isEventRegistrer

(* C16: updatePosition() sets the two style properties to "<x>px" and      *)
(* "<y>px" of the resolver's result for the current measurements and the   *)
(* stored placement and offset, invokes onUpdate, when registered, exactly *)
(* once with that {x, y} and the stored placement, and attaches the window *)
(* listeners only after that: the callback still observes the registration *)
(* the call started with.                                                  *)
C16_UpdatePosition ==
    [][lastOp'.op = "updatePosition"
       => /\ style' = StyleIn(popper.reference, popper.placement,
                              popper.offsetDistance, scrollY', windowWidth')
          /\ Cardinality(UpdateCalls(log')) = (IF popper.onUpdate THEN 1 ELSE 0)
          /\ \A i \in UpdateCalls(log') :
                /\ Px(log'[i].x) = style'.x /\ Px(log'[i].y) = style'.y
                /\ log'[i].arg = popper.placement
                /\ log'[i].registered = popper.isEventRegistrer
          /\ ListenersOn(listeners', "window") = FlaggedListeners
          /\ popper'.isEventRegistrer]_vars

C16_Witness ==
    /\ lastOp.op = "updatePosition"
    /\ popper.onUpdate
    /\ \E i \in UpdateCalls(log) : ~log[i].registered /\ Px(log[i].x) = style.x
    /\ style.x.set /\ style.y.set
    /\ ListenersOn(listeners, "window") = {ResizeListener, ScrollListener}
    /\ popper.isEventRegistrer

(* C17: updatePosition() is idempotent: a second call right after a first, *)
(* with geometry, viewport and configuration unchanged, leaves the same    *)
(* two style values, hands onUpdate the same arguments, and leaves the     *)
(* same window listeners attached and the same controller fields.          *)
C17_UpdatePositionIdempotent ==
    [][(lastOp.op = "updatePosition" /\ lastOp'.op = "updatePosition")
       => /\ style' = style
          /\ UpdateArguments(log') = UpdateArguments(log)
          /\ Cardinality(UpdateCalls(log')) = Cardinality(UpdateCalls(log))
          /\ ListenersOn(listeners', "window") = ListenersOn(listeners, "window")
          /\ popper' = popper]_vars

C17_Witness ==
    /\ lastOp.op = "updatePosition"
    /\ log[1].ev = "updatePosition" /\ log[1].registered
    /\ popper.onUpdate /\ UpdateArguments(log) # {}
    /\ style.x.set
    /\ ListenersOn(listeners, "window") = {ResizeListener, ScrollListener}

(* C18: cleanupEvents() sets both position style properties to the empty   *)
(* string and leaves no window listener attached and the listeners marked  *)
(* detached; while they are marked detached no window listener is          *)
(* attached, so a resize or scroll event changes no style property and     *)
(* invokes no onUpdate; and only updatePosition() or setOptions() marks    *)
(* them registered again.                                                  *)
C18_CleanupEvents ==
    /\ [](lastOp.op = "cleanupEvents"
            => /\ style = EmptyStyle
               /\ ListenersOn(listeners, "window") = {}
               /\ ~popper.isEventRegistrer)
    /\ [](~popper.isEventRegistrer => ListenersOn(listeners, "window") = {})
    /\ [][(~popper.isEventRegistrer /\ lastOp'.op \in {"WindowResize", "WindowScroll"})
          => /\ style' = style
             /\ UpdateCalls(log') = {}
             /\ ~popper'.isEventRegistrer]_vars
    /\ [][(~popper.isEventRegistrer /\ popper'.isEventRegistrer)
          => lastOp'.op \in {"updatePosition", "setOptions"}]_vars

C18_Witness ==
    /\ lastOp.op = "cleanupEvents"
    /\ log[1].ev = "cleanupEvents" /\ log[1].registered
    /\ ~popper.disableOnResize /\ ~popper.disableOnScroll
    /\ style = EmptyStyle
    /\ ListenersOn(listeners, "window") = {}
    /\ ~popper.isEventRegistrer

(* C19: updatePosition() right after cleanupEvents() leaves what           *)
(* updatePosition() leaves on a controller whose listeners are registered: *)
(* the position styles of the stored placement and offset, the window      *)
(* listeners the disable flags ask for, and the registered flag set.       *)
C19_ReusableAfterCleanup ==
    [][(/\ lastOp'.op = "updatePosition"
        /\ lastOp.op = "cleanupEvents" \/ popper.isEventRegistrer)
       => /\ style' = StyleIn(popper.reference, popper.placement,
                              popper.offsetDistance, scrollY, windowWidth)
          /\ ListenersOn(listeners', "window") = FlaggedListeners
          /\ popper' = [popper EXCEPT !.isEventRegistrer = TRUE]]_vars

C19_Witness ==
    /\ lastOp.op = "updatePosition"
    /\ log[1].ev = "updatePosition" /\ ~log[1].registered
    /\ style.x.set /\ style.y.set
    /\ ListenersOn(listeners, "window") = {ResizeListener, ScrollListener}
    /\ popper.isEventRegistrer

(* C20: resetPosition() sets both position style properties to the empty   *)
(* string and changes nothing else: listeners and controller fields        *)
(* (registered flag, stored placement and offset, disable flags) are as    *)
(* before, so the resize or scroll event that follows it, when its         *)
(* listener is attached, positions the popper again.                       *)
C20_ResetPositionFrame ==
    [][/\ lastOp'.op = "resetPosition"
          => /\ style' = EmptyStyle
             /\ listeners' = listeners
             /\ popper' = popper
       /\ (lastOp.op = "resetPosition" /\ HandledWindowEvent(lastOp'.op, listeners))
          => /\ style' = StyleIn(popper.reference, popper.placement,
                                 popper.offsetDistance, scrollY', windowWidth')
             /\ style'.x.set /\ style'.y.set
      ]_vars

C20_Witness ==
    /\ lastOp.op = "resetPosition"
    /\ style = EmptyStyle
    /\ ListenersOn(listeners, "window") = {ResizeListener, ScrollListener}
    /\ popper.isEventRegistrer

(* C21: on a controller built with disableOnResize (resp. disableOnScroll) *)
(* set, no window resize (resp. scroll) listener is ever attached, a       *)
(* window resize (resp. scroll) event never changes the position styles or *)
(* invokes onUpdate, no handler calls removeEventListener more often than  *)
(* the flags leave listeners to remove, and with both flags set no handler *)
(* (cleanupEvents included) calls removeEventListener at all.              *)
C21_DisabledEvents ==
    /\ [](popper.disableOnResize => ResizeListener \notin listeners)
    /\ [](popper.disableOnScroll => ScrollListener \notin listeners)
    /\ [](removeCalls <= Cardinality(FlaggedListeners))
    /\ [](popper.disableOnResize /\ popper.disableOnScroll => removeCalls = 0)
    /\ [][(popper.disableOnResize /\ lastOp'.op = "WindowResize")
          => (style' = style /\ UpdateCalls(log') = {})]_vars
    /\ [][(popper.disableOnScroll /\ lastOp'.op = "WindowScroll")
          => (style' = style /\ UpdateCalls(log') = {})]_vars

C21_Witness ==
    /\ popper.disableOnResize /\ popper.disableOnScroll
    /\ lastOp.op = "cleanupEvents"
    /\ log[1].ev = "cleanupEvents" /\ log[1].registered
    /\ removeCalls = 0
    /\ ListenersOn(listeners, "window") = {}

----------------------------------------------------------------------------
(* Construction *)

\* the handler ended by throwing an Error with this message
Threw(lg, message) ==
    lg # <<>> /\ lg[Len(lg)].ev = "throw" /\ lg[Len(lg)].arg = message

\* nothing of an overlay or a popper controller is on the page
NothingInitialized ==
    /\ dataState = NoAttribute
    /\ \A t \in Triggers : ariaExpanded[t] = NoAttribute
    /\ listeners = {}
    /\ style = EmptyStyle
    /\ popper = NoPopper

(* C22: constructing a popper controller with valid elements and an        *)
(* offsetDistance that is supplied and is not a number (a non-empty        *)
(* string, the empty string, null or false) throws "OffsetDistance must be *)
(* a number" and produces no controller.                                   *)
C22_NonNumericOffsetRejected ==
    (/\ lastOp.op = "new CreatePopper"
     /\ lastOp.target # NoElement /\ lastOp.content # NoElement
     /\ lastOp.offsetDistance \in NonNumbers)
    => (Threw(log, "OffsetDistance must be a number") /\ popper = NoPopper)

(* C23: constructing a popper controller with a reference that is not an   *)
(* element throws "Invalid HTMLElement for Reference Element" (the         *)
(* reference is checked first), with a valid reference and a popper that   *)
(* is not an element it throws "Invalid HTMLElement for Popper Element",   *)
(* and in both cases no style is written, no listener attached and no      *)
(* controller produced.                                                    *)
C23_InvalidElementsRejected ==
    lastOp.op = "new CreatePopper"
    => /\ lastOp.target = NoElement
          => /\ Threw(log, "Invalid HTMLElement for Reference Element")
             /\ NothingInitialized
       /\ (lastOp.target # NoElement /\ lastOp.content = NoElement)
          => /\ Threw(log, "Invalid HTMLElement for Popper Element")
             /\ NothingInitialized

(* C24: setOptions called with an offsetDistance that is not a number      *)
(* throws "OffsetDistance must be a number": it writes no position style   *)
(* and does not invoke onUpdate.                                           *)
C24_SetOptionsRejectsNonNumber ==
    [][(lastOp'.op = "setOptions" /\ lastOp'.offsetDistance \in NonNumbers)
       => /\ Threw(log', "OffsetDistance must be a number")
          /\ UpdateCalls(log') = {}
          /\ style' = style]_vars

(* C25: constructing an overlay whose trigger or content does not resolve  *)
(* to an element throws and leaves nothing half-initialized: no data-state *)
(* or aria-expanded attribute, no listener on trigger, document or window, *)
(* no position style and no popper controller.                             *)
C25_OverlayConstructionAborts ==
    (/\ lastOp.op = "new CreateOverlay"
     /\ lastOp.target = NoElement \/ lastOp.content = NoElement)
    => /\ Threw(log, IF lastOp.target = NoElement
                     THEN "Trigger element must be a valid HTML element"
                     ELSE "Content element must be a valid HTML element")
       /\ Len(log) = 1
       /\ NothingInitialized
       /\ triggerElement = NoElement

C25_Witness ==
    /\ lastOp.op = "new CreateOverlay"
    /\ lastOp.target = "t1" /\ lastOp.content = NoElement
    /\ Threw(log, "Content element must be a valid HTML element")
    /\ NothingInitialized

(* C26: right after a successful construction the overlay's data-state is  *)
(* defaultState ("close" when omitted); with "open" the construction ran   *)
(* the full show (popper positioned, document and window listeners         *)
(* attached, onShow invoked), and with "close" no position style is set    *)
(* and no document or window listener is attached.                         *)
C26_InitialState ==
    (/\ lastOp.op = "new CreateOverlay"
     /\ lastOp.target # NoElement /\ lastOp.content # NoElement)
    => /\ dataState = (IF lastOp.defaultState = "undefined" THEN "close"
                       ELSE lastOp.defaultState)
       /\ ariaExpanded[triggerElement] = (IF dataState = "open" THEN "true" ELSE "false")
       /\ dataState = "open"
          => /\ ShowStepsAt(log, 2)
             /\ style = StyleIn(triggerElement, opts.placement, opts.offsetDistance,
                                scrollY, windowWidth)
             /\ style.x.set /\ style.y.set
             /\ ListenersOn(listeners, "document")
                    = {<<"document", "keydown", "handleKeyDown">>,
                       <<"document", "click", "handleDocumentClick">>}
             /\ ListenersOn(listeners, "window") = {ResizeListener, ScrollListener}
       /\ dataState = "close"
          => /\ style = EmptyStyle
             /\ ~HasEv(log, "onShow")
             /\ ListenersOn(listeners, "document") = {}
             /\ ListenersOn(listeners, "window") = {}

C26_Witness ==
    /\ lastOp.op = "new CreateOverlay"
    /\ lastOp.defaultState = "open"
    /\ dataState = "open"
    /\ HasEv(log, "onShow")
    /\ style.x.set
    /\ <<"document", "click", "handleDocumentClick">> \in listeners

----------------------------------------------------------------------------
(* setShowOptions against show *)

\* the callbacks of the caller a handler invoked, in order
Callbacks(lg) ==
    SelectSeq(lg, LAMBDA e : e.ev \in {"beforeShow", "onToggle", "onShow", "onHide"})

CallbackNames(lg) == [i \in 1..Len(Callbacks(lg)) |->
                        <<Callbacks(lg)[i].ev, Callbacks(lg)[i].arg>>]

\* show() run from the current state on an overlay whose popper is
\* configured with the given placement and offset
ShowConfigured(placement, offsetDistance) ==
    Let(World, LAMBDA w :
        Show([w EXCEPT !.popper.placement = placement,
                       !.popper.offsetDistance = offsetDistance]))

(* C27: setShowOptions({placement: p, offsetDistance}) ends in the state   *)
(* show() ends in on an overlay whose popper is configured with p (and     *)
(* with the offset the call resolves to): data-state "open", aria-expanded *)
(* "true", document keydown and click listeners, the position style of p   *)
(* against the popper's reference element,                                 *)
(* the window listeners, and beforeShow, onToggle({isHidden:false}),       *)
(* onShow invoked in that order.                                           *)
C27_SetShowOptionsAsShow ==
    [][lastOp'.op = "setShowOptions"
       => \E ref \in {ShowConfigured(lastOp'.placement,
                                     OrOffset(lastOp'.offsetDistance,
                                              popper.offsetDistance))} :
            /\ dataState' = ref.dataState /\ dataState' = "open"
            /\ ariaExpanded' = ref.ariaExpanded
            /\ ariaExpanded'[triggerElement'] = "true"
            /\ listeners' = ref.listeners
            /\ {<<"document", "keydown", "handleKeyDown">>,
                <<"document", "click", "handleDocumentClick">>,
                ResizeListener, ScrollListener} \subseteq listeners'
            /\ style' = ref.style
            /\ style' = StyleIn(popper.reference, lastOp'.placement,
                                OrOffset(lastOp'.offsetDistance, popper.offsetDistance),
                                scrollY, windowWidth)
            /\ CallbackNames(log') = CallbackNames(ref.log)
            /\ CallbackNames(log') = << <<"beforeShow", "">>,
                                        <<"onToggle", "isHidden:false">>,
                                        <<"onShow", "">> >>
      ]_vars

C27_Witness ==
    /\ lastOp.op = "setShowOptions"
    /\ lastOp.placement = "right-start" /\ lastOp.offsetDistance = 10
    /\ dataState = "open"
    /\ style = StyleIn(popper.reference, "right-start", 10, scrollY, windowWidth)
    /\ style # StyleIn(popper.reference, "bottom", DefaultOffsetDistance, scrollY, windowWidth)
    /\ HasEv(log, "onShow")

----------------------------------------------------------------------------
(* The placement resolver *)

PrimaryIsY(placement) ==
    placement \in {"top", "top-start", "top-middle", "top-end",
                   "bottom", "bottom-start", "bottom-middle", "bottom-end"}

AwayIsNegative(placement) ==
    placement \in {"top", "top-start", "top-middle", "top-end",
                   "left", "left-start", "left-middle", "left-end"}

(* C28: determinePosition clips each axis into the viewport: x lies in     *)
(* [0, windowWidth - popperWidth] whenever the popper is not wider than    *)
(* the viewport and y in [0, windowHeight - popperHeight] whenever it is   *)
(* not taller, and on an axis where the popper is larger than the viewport *)
(* the coordinate is exactly 0.                                            *)
C28_ClippedIntoViewport ==
    probe.called
    => /\ probe.ctx.popperWidth <= probe.ctx.windowWidth
          => (0 <= probe.x /\ probe.x <= probe.ctx.windowWidth - probe.ctx.popperWidth)
       /\ probe.ctx.popperHeight <= probe.ctx.windowHeight
          => (0 <= probe.y /\ probe.y <= probe.ctx.windowHeight - probe.ctx.popperHeight)
       /\ probe.ctx.popperWidth > probe.ctx.windowWidth => probe.x = 0
       /\ probe.ctx.popperHeight > probe.ctx.windowHeight => probe.y = 0

\* clipped at the right edge, and taller than the viewport
C28_Witness ==
    /\ probe.called
    /\ probe.ctx.placement = "right-end"
    /\ probe.ctx.refLeft + probe.ctx.refWidth + probe.ctx.offsetDistance
          > probe.ctx.windowWidth - probe.ctx.popperWidth
    /\ probe.x = probe.ctx.windowWidth - probe.ctx.popperWidth
    /\ probe.ctx.popperHeight > probe.ctx.windowHeight
    /\ probe.y = 0

\* the unclipped position of section 4.2 for each placement token at
\* offset 0
PlacementTable(c) ==
    [x |-> CASE c.placement \in {"top-start", "bottom-start"} -> c.refLeft
             [] c.placement \in {"top", "top-middle", "bottom", "bottom-middle"} ->
                  c.refLeft + (c.refWidth \div 2) - (c.popperWidth \div 2)
             [] c.placement \in {"top-end", "bottom-end"} ->
                  c.refLeft + c.refWidth - c.popperWidth
             [] c.placement \in {"left", "left-start", "left-middle", "left-end"} ->
                  c.refLeft - c.popperWidth
             [] OTHER -> c.refLeft + c.refWidth,
     y |-> CASE c.placement \in {"left-start", "right-start"} -> c.refTop
             [] c.placement \in {"left", "left-middle", "right", "right-middle"} ->
                  c.refTop + (c.refHeight \div 2) - (c.popperHeight \div 2)
             [] c.placement \in {"left-end", "right-end"} ->
                  c.refTop + c.refHeight - c.popperHeight
             [] c.placement \in {"top", "top-start", "top-middle", "top-end"} ->
                  c.refTop - c.popperHeight
             [] OTHER -> c.refTop + c.refHeight]

InsideViewport(c, pos) ==
    /\ 0 <= pos.x /\ pos.x <= c.windowWidth - c.popperWidth
    /\ 0 <= pos.y /\ pos.y <= c.windowHeight - c.popperHeight

(* C29: for each placement (a bare side meaning its -middle variant), when *)
(* the unclipped position lies inside the viewport and the offset is 0,    *)
(* determinePosition returns on the primary axis the reference edge minus  *)
(* or plus the popper extent and on the cross axis the start, middle or    *)
(* end value.                                                              *)
C29_PlacementFormulas ==
    (/\ probe.called
     /\ probe.ctx.offsetDistance = 0
     /\ InsideViewport(probe.ctx, PlacementTable(probe.ctx)))
    => (probe.x = PlacementTable(probe.ctx).x /\ probe.y = PlacementTable(probe.ctx).y)

\* a bare side, centred, next to the left edge of the viewport
C29_Witness ==
    /\ probe.called
    /\ probe.ctx.offsetDistance = 0
    /\ probe.ctx.placement = "bottom"
    /\ probe.ctx.refLeft = 4 /\ probe.ctx.refTop = 450
    /\ probe.ctx.popperWidth = 50 /\ probe.ctx.popperHeight = 20
    /\ probe.x = 29 /\ probe.y = 550

\* the position the resolver returns for the same call with offset 0
AtZeroOffset == DeterminePosition([probe.ctx EXCEPT !.offsetDistance = 0])

PrimaryOf(pos) == IF PrimaryIsY(probe.ctx.placement) THEN pos.y ELSE pos.x
CrossOf(pos) == IF PrimaryIsY(probe.ctx.placement) THEN pos.x ELSE pos.y

ShiftedByOffset ==
    PrimaryOf(probe) = PrimaryOf(AtZeroOffset)
                       + (IF AwayIsNegative(probe.ctx.placement)
                          THEN 0 - probe.ctx.offsetDistance
                          ELSE probe.ctx.offsetDistance)

\* the primary coordinate lies strictly between the bounds of the clip
StrictlyInside(pos) ==
    IF PrimaryIsY(probe.ctx.placement)
    THEN 0 < pos.y /\ pos.y < probe.ctx.windowHeight - probe.ctx.popperHeight
    ELSE 0 < pos.x /\ pos.x < probe.ctx.windowWidth - probe.ctx.popperWidth

(* C30, as claimed: for any placement and any offsetDistance d the         *)
(* primary-axis coordinate differs from the one for d = 0 by exactly d     *)
(* (less by d for top and left, more by d for bottom and right) and the    *)
(* cross-axis coordinate is the one for d = 0.                             *)
C30_AsClaimed ==
    probe.called
    => (ShiftedByOffset /\ CrossOf(probe) = CrossOf(AtZeroOffset))

(* C30: the cross-axis coordinate never depends on offsetDistance, and     *)
(* the primary-axis coordinate differs from the one for d = 0 by exactly   *)
(* d, away from the reference, whenever neither of the two coordinates is  *)
(* at a bound of the clip.                                                 *)
C30_OffsetShift ==
    probe.called
    => /\ CrossOf(probe) = CrossOf(AtZeroOffset)
       /\ (StrictlyInside(probe) /\ StrictlyInside(AtZeroOffset))
          => ShiftedByOffset

C30_Witness ==
    /\ probe.called
    /\ probe.ctx.placement = "top"
    /\ probe.ctx.offsetDistance = 10
    /\ probe.ctx.refTop = 450 /\ probe.ctx.popperHeight = 50
    /\ probe.y = 390
    /\ AtZeroOffset.y = 400

----------------------------------------------------------------------------
(* The dimension reader *)

\* the latest step was a getDimensions call that returned
Measured == lastOp'.op = "getDimensions" /\ measure'.thrown = ""

\* getBoundingClientRect calls the latest step made on element e
RectCallsOn(e) == measure'.rectCalls[e] - measure.rectCalls[e]

(* C31: getDimensions returns the reference rectangle's height, width,     *)
(* left, top and right and the popper rectangle's height and width         *)
(* unchanged, and within one call measures each distinct element exactly   *)
(* once: once each for two different elements, once in total when the      *)
(* reference and the popper are the same element.                          *)
C31_DimensionsAndOneMeasurement ==
    [][Measured
       => /\ measure'.dims.refHeight = BoundingClientRect(measure'.reference, scrollY).height
          /\ measure'.dims.refWidth = BoundingClientRect(measure'.reference, scrollY).width
          /\ measure'.dims.refLeft = BoundingClientRect(measure'.reference, scrollY).left
          /\ measure'.dims.refTop = BoundingClientRect(measure'.reference, scrollY).top
          /\ measure'.dims.refRight = BoundingClientRect(measure'.reference, scrollY).right
          /\ measure'.dims.popperHeight = BoundingClientRect(measure'.popperEl, scrollY).height
          /\ measure'.dims.popperWidth = BoundingClientRect(measure'.popperEl, scrollY).width
          /\ \A e \in Elements :
                RectCallsOn(e) = IF e \in {measure'.reference, measure'.popperEl}
                                 THEN 1 ELSE 0
      ]_vars

\* one call with the same element as reference and as popper, on a
\* scrolled page
C31_Witness ==
    /\ lastOp.op = "getDimensions"
    /\ measure.n = 1
    /\ measure.reference = "t1" /\ measure.popperEl = "t1"
    /\ scrollY = 60
    /\ measure.dims.refTop = 140 /\ measure.dims.popperHeight = 40
    /\ measure.rectCalls = [e \in Elements |-> IF e = "t1" THEN 1 ELSE 0]

(* C32: across getDimensions calls an element's rectangle is cached: a     *)
(* call does not measure again an element an earlier call has measured,    *)
(* and measures once an element not seen before.                           *)
C32_CachedAcrossCalls ==
    [][Measured
       => \A e \in {measure'.reference, measure'.popperEl} :
            RectCallsOn(e) = IF measure.rectCalls[e] > 0 THEN 0 ELSE 1
      ]_vars

(* C33: getDimensions throws "Reference or popper element is null or       *)
(* undefined" when the reference or the popper is null or undefined, and   *)
(* then measures neither element.                                          *)
C33_NullElementThrows ==
    [][(lastOp'.op = "getDimensions" /\ measure'.n = measure.n + 1)
       => /\ (measure'.reference = NoElement \/ measure'.popperEl = NoElement)
             <=> measure'.thrown = "Reference or popper element is null or undefined"
          /\ measure'.thrown # ""
             => (measure'.rectCalls = measure.rectCalls /\ measure'.dims = NoDimensions)
      ]_vars

C33_Witness ==
    /\ lastOp.op = "getDimensions"
    /\ measure.reference = "t1" /\ measure.popperEl = NoElement
    /\ measure.thrown = "Reference or popper element is null or undefined"
    /\ measure.n = 1
    /\ measure.rectCalls = [e \in Elements |-> 0]

----------------------------------------------------------------------------
(* Interleavings of show, hide and the transition callback *)

\* the argument of the last onToggle of the handler
LastToggle(lg) ==
    lg[CHOOSE i \in 1..Len(lg) :
          /\ lg[i].ev = "onToggle"
          /\ \A j \in (i + 1)..Len(lg) : lg[j].ev # "onToggle"].arg

\* the last of onShow / onHide of the handler
LastShowHide(lg) ==
    lg[CHOOSE i \in 1..Len(lg) :
          /\ lg[i].ev \in {"onShow", "onHide"}
          /\ \A j \in (i + 1)..Len(lg) : lg[j].ev \notin {"onShow", "onHide"}].ev

(* C34: whenever the overlay's data-state is "open" the owned popper is    *)
(* active: both position style properties are set and the window resize    *)
(* and scroll listeners are attached per the disable flags, in every       *)
(* interleaving of show, hide and the transition callbacks.                *)
C34_OpenMeansPositioned ==
    dataState = "open"
    => /\ style.x.set /\ style.y.set
       /\ ListenersOn(listeners, "window") = FlaggedListeners

(* C35: once every pending transition callback has fired, the most recent  *)
(* onToggle agrees with the overlay's state (isHidden true exactly when    *)
(* data-state is "close") and the last of onShow / onHide is onShow        *)
(* exactly when data-state is "open": checked on every handler that        *)
(* notifies and leaves no transition pending.                              *)
C35_NotificationsAgree ==
    [][pendingTransitions' = 0
       => /\ HasEv(log', "onToggle")
             => (LastToggle(log') = "isHidden:true" <=> dataState' = "close")
          /\ (HasEv(log', "onShow") \/ HasEv(log', "onHide"))
             => (LastShowHide(log') = "onShow" <=> dataState' = "open")
      ]_vars

(* C36: whenever the overlay's data-state is "close" and no hide           *)
(* transition is pending the owned popper is inactive: no window resize or *)
(* scroll listener is attached and both position style properties are      *)
(* empty, after any sequence of overlay operations.                        *)
C36_ClosedMeansInactive ==
    (dataState = "close" /\ pendingTransitions = 0)
    => /\ ListenersOn(listeners, "window") = {}
       /\ style = EmptyStyle

(* C37: a close is reported once: when the overlay is closed, its close    *)
(* has been reported (onHide ran) and no transition is pending, a handler  *)
(* that does not open the overlay invokes none of beforeHide,              *)
(* onToggle({isHidden:true}) and onHide.                                   *)
C37_CloseReportedOnce ==
    [][(/\ dataState = "close" /\ pendingTransitions = 0
        /\ HasEv(log, "onHide")
        /\ ~HasEv(log', "onShow"))
       => /\ ~HasEv(log', "beforeHide")
          /\ ~HasEvArg(log', "onToggle", "isHidden:true")
          /\ ~HasEv(log', "onHide")
      ]_vars

----------------------------------------------------------------------------
(* The registered flag of the popper controller *)

(* C38: in the popper controller, between operations, the resize listener  *)
(* is attached exactly when the registered flag is true and                *)
(* disableOnResize is false, and the scroll listener exactly when the flag *)
(* is true and disableOnScroll is false.                                   *)
C38_FlagMirrorsListeners ==
    /\ ResizeListener \in listeners
          <=> (popper.isEventRegistrer /\ ~popper.disableOnResize)
    /\ ScrollListener \in listeners
          <=> (popper.isEventRegistrer /\ ~popper.disableOnScroll)

\* a registered controller has just been cleaned up
C38_Witness ==
    /\ lastOp.op = "cleanupEvents"
    /\ removeCalls > 0
    /\ ~popper.isEventRegistrer
    /\ ListenersOn(listeners, "window") = {}

----------------------------------------------------------------------------
(* The opening click *)

(* C39: the click that opens the overlay does not also close it: when a    *)
(* click on the trigger runs show() and the event then reaches the         *)
(* document click handler attached by that show(), the handler does not    *)
(* hide and data-state stays "open", for every combination of the two      *)
(* prevention flags.                                                       *)
C39_OpeningClickStaysOpen ==
    [][(/\ lastOp'.op = "Click"
        /\ lastOp'.target = triggerElement
        /\ HasEv(log', "onShow"))
       => /\ HasEvArg(log', "handleDocumentClick", triggerElement)
          /\ ~HasEv(log', "beforeHide")
          /\ dataState' = "open"
          /\ ariaExpanded'[triggerElement] = "true"
      ]_vars

C39_Witness ==
    /\ lastOp.op = "Click"
    /\ lastOp.target = triggerElement
    /\ HasEv(log, "onShow")
    /\ HasEvArg(log, "handleDocumentClick", triggerElement)
    /\ ~opts.preventFromCloseOutside /\ ~opts.preventFromCloseInside
    /\ dataState = "open"

====
